---- MODULE Spec2Model ----
(***************************************************************************)
(* A model of bdbcontrib's Composer metamodel                              *)
(* (src/src/metamodels/composer.py): the topological scheduler, the schema *)
(* parser, the predictor registry and cache, and the model lifecycle.      *)
(***************************************************************************)
EXTENDS Integers, Sequences, FiniteSets, TLC

(***************************************************************************)
(* Bounds of the model.                                                    *)
(***************************************************************************)
\* Nodes of an adjacency map handed to topological_sort are 1..MaxNode.
MaxNode == 3
\* Largest number of predecessors one node of such a map lists.
MaxEdges == 2
\* Largest number of blocks of a schema handed to parse.
MaxBlocks == 3
\* Largest number of calls of parse on one schema object.
MaxParses == 2

\* Generator ids are 1..MaxIds.
MaxIds == 2

\* deserialize is followed for MaxCalls calls per key and eviction.
MaxCalls == 2

\* self.n_samples: the hypotheses of one weighted sample.
n_samples == 2

\* numpredictions is at most MaxPredictions.
MaxPredictions == 2

\* analyze_models counts at most MaxIterations iterations for a model.
MaxIterations == 1

VARIABLES
    \* topological_sort
    t_input,        \* the argument: node -> listed predecessors
    graph,          \* the unsorted remainder (the keys of dict `graph`)
    graph_sorted,   \* the output list of (node, edges) pairs
    items,          \* entries of graph.items() the for loop has not visited
    acyclic,        \* flag of the current scan
    scans,          \* number of scans (iterations of the while loop) begun
    t_pc,           \* "while", "for", "returned", "raised"
    \* parse
    p_abs,          \* the schema as written: its blocks in structured form
    schema,         \* the schema object handed to parse (parse pops its tokens)
    p_arg,          \* the value of the schema object when parse was last called
    p_result,       \* what the last call of parse returned or raised
    p_calls,        \* number of calls of parse on the schema object
    \* the Composer object
    predictor_builder,  \* self.predictor_builder: name -> registered builder
    predictor_cache,    \* self.predictor_cache: (genid, colno) -> predictor
    bdb,                \* the tables of the database
    \* history
    deserialize_log,    \* (genid, colno) -> what each deserialize since the
                        \* last eviction of the key did
    dropped,            \* ids drop_generator succeeded for and no model was
                        \* created under since -> the cache keys it evicted
    outcome,            \* the last call of the Composer and how it ended
    \* demo/main.py
    demo                \* the demo command: where main() is, its locals, the calls
                        \* of download_demo so far and the exit status

topoVars == <<t_input, graph, graph_sorted, items, acyclic, scans, t_pc>>
parseVars == <<p_abs, schema, p_arg, p_result, p_calls>>
lifeVars == <<predictor_builder, predictor_cache, bdb, deserialize_log, dropped, outcome>>
demoVars == <<demo>>
vars == <<topoVars, parseVars, lifeVars, demoVars>>

(***************************************************************************)
(* Helpers.                                                                *)
(***************************************************************************)
\* dict[k] = v
Put(f, k, v) == [x \in DOMAIN f \cup {k} |-> IF x = k THEN v ELSE f[x]]

\* The elements of a list, as a set.
Range(s) == {s[i] : i \in 1..Len(s)}

\* len(l) != len(set(l))
HasDuplicates(s) == Len(s) # Cardinality(Range(s))

(***************************************************************************)
(* topological_sort(graph)                                                 *)
(***************************************************************************)
\* A column that is never a key of the map: a local column.
LocalNode == 0

TopoNodes == 1..MaxNode

\* The predecessors one node lists; only membership in them is read.
EdgeLists == {e \in SUBSET (TopoNodes \cup {LocalNode}) : Cardinality(e) <= MaxEdges}

\* Every adjacency map over the nodes.
TopoGraphs == UNION {[ks -> EdgeLists] : ks \in SUBSET TopoNodes}

\* `while graph:`, and the start of one scan over graph.items().
TopoWhile ==
    /\ t_pc = "while"
    /\ IF graph # {}
         THEN /\ acyclic' = FALSE
              /\ items' = graph
              /\ scans' = scans + 1
              /\ t_pc' = "for"
         ELSE /\ t_pc' = "returned"
              /\ UNCHANGED <<acyclic, items, scans>>
    /\ UNCHANGED <<t_input, graph, graph_sorted, parseVars, lifeVars, demoVars>>

\* Mutants of TopoBlocked: the node stays only when all its edges are left;
\* an edge from a node to itself is not looked at.
TopoBlockedAll(node) == \A edge \in t_input[node] : edge \in graph

TopoBlockedNoSelf(node) == \E edge \in t_input[node] \ {node} : edge \in graph

\* `for edge in edges: if edge in graph: break`: the node stays.

TopoBlocked(node) == \E edge \in t_input[node] : edge \in graph

\* One iteration of `for node, edges in graph.items()`. The order of a dict
\* is arbitrary, so any entry of the snapshot not yet visited may come next.
TopoFor ==
    /\ t_pc = "for"
    /\ items # {}
    /\ \E node \in items :
         /\ items' = items \ {node}
         /\ IF TopoBlocked(node)
              THEN UNCHANGED <<acyclic, graph, graph_sorted>>
              ELSE /\ acyclic' = TRUE
                   /\ graph' = graph \ {node}
                   /\ graph_sorted' = Append(graph_sorted, <<node, t_input[node]>>)
    /\ UNCHANGED <<t_input, scans, t_pc, parseVars, lifeVars, demoVars>>

\* The end of a scan: `if not acyclic: raise ValueError`.
TopoScanEnd ==
    /\ t_pc = "for"
    /\ items = {}
    /\ t_pc' = IF acyclic THEN "while" ELSE "raised"
    /\ UNCHANGED <<t_input, graph, graph_sorted, items, acyclic, scans, parseVars, lifeVars, demoVars>>

TopoNext == TopoWhile \/ TopoFor \/ TopoScanEnd

(***************************************************************************)
(* parse(schema)                                                           *)
(***************************************************************************)
\* bayeslite.util.casefold, on the tokens of the model: names are compared
\* in their case-folded form.
CaseFold(s) ==
    CASE s = "X" -> "x"
      [] s = "Y" -> "y"
      [] s = "RF" -> "rf"
      [] s = "NUMERICAL" -> "numerical"
      [] OTHER -> s

STATTYPES == {"numerical", "categorical"}

\* DIRECTIVES, given the keys of self.predictor_builder.
DIRECTIVES(builders) == {"crosscat", "default", "dependent", "independent"} \cup builders

\* The data structures parse returns, empty, and no exception raised.
ParseStart ==
    [columns |-> <<>>, lcols |-> <<>>, fcols |-> <<>>, fcol_to_pcols |-> <<>>,
     fcol_to_fpred |-> <<>>, dependencies |-> <<>>, err |-> "none"]

Raise(st, e) == [st EXCEPT !.err = e]

\* A default/crosscat block: `while commands:` popping a name and a stattype.
\* Popping from the empty list raises IndexError.
RECURSIVE ParseLocal(_, _)
ParseLocal(commands, st) ==
    IF commands = <<>> THEN [commands |-> commands, st |-> st]
    ELSE LET c == CaseFold(Head(commands))
             rest == Tail(commands)
         IN  IF c = "," THEN ParseLocal(rest, st)
             ELSE IF rest = <<>> THEN [commands |-> rest, st |-> Raise(st, "IndexError")]
             ELSE LET s == CaseFold(Head(rest))
                  IN  IF s \notin STATTYPES
                      THEN [commands |-> Tail(rest), st |-> Raise(st, "ValueError")]
                      ELSE ParseLocal(Tail(rest),
                               [st EXCEPT !.columns = Put(@, c, s),
                                          !.lcols = Append(@, c)])

\* Mutant of ParseNames: the names are collected in reverse.
RECURSIVE ParseNamesReversed(_)
ParseNamesReversed(commands) ==
    IF commands = <<>> THEN <<>>
    ELSE LET c == CaseFold(Head(commands))
         IN  IF c = "," THEN ParseNamesReversed(Tail(commands))
             ELSE ParseNamesReversed(Tail(commands)) \o <<c>>

\* The loops of dependent, independent and GIVEN: every token but ','.
RECURSIVE ParseNames(_)
ParseNames(commands) ==
    IF commands = <<>> THEN <<>>
    ELSE LET c == CaseFold(Head(commands))
         IN  IF c = "," THEN ParseNames(Tail(commands))
             ELSE <<c>> \o ParseNames(Tail(commands))

\* A block of a registered predictor: <target> <stattype> GIVEN <conditions>.
ParseForeign(directive, commands, st) ==
    IF Len(commands) < 2
    THEN [commands |-> <<>>, st |-> Raise(st, "IndexError")]
    ELSE LET c == CaseFold(commands[1])
             s == CaseFold(commands[2])
             st1 == [st EXCEPT !.columns = Put(@, c, s)]
         IN  IF s \notin STATTYPES
             THEN [commands |-> SubSeq(commands, 3, Len(commands)),
                   st |-> Raise(st, "ValueError")]
             ELSE IF Len(commands) < 3
             THEN [commands |-> <<>>, st |-> Raise(st1, "IndexError")]
             ELSE IF CaseFold(commands[3]) # "given"
             THEN [commands |-> SubSeq(commands, 4, Len(commands)),
                   st |-> Raise(st1, "ValueError")]
             ELSE [commands |-> <<>>,
                   st |-> [st1 EXCEPT
                       !.fcols = Append(@, c),
                       !.fcol_to_pcols =
                           Put(@, c, ParseNames(SubSeq(commands, 4, Len(commands)))),
                       !.fcol_to_fpred = Put(@, c, directive)]]

\* The body of `for block in schema` for a block that is not empty.
ParseBlock(block, st, builders) ==
    LET directive == CaseFold(block[1])
        commands == block[2]
    IN  IF directive \notin DIRECTIVES(builders)
        THEN [commands |-> commands, st |-> Raise(st, "ValueError")]
        ELSE IF directive \in {"default", "crosscat"}
        THEN ParseLocal(commands, st)
        ELSE IF directive = "independent"
        THEN [commands |-> <<>>,
              st |-> [st EXCEPT !.dependencies = Append(@, <<FALSE, ParseNames(commands)>>)]]
        ELSE IF directive = "dependent"
        THEN [commands |-> <<>>,
              st |-> [st EXCEPT !.dependencies = Append(@, <<TRUE, ParseNames(commands)>>)]]
        ELSE ParseForeign(directive, commands, st)

\* `for block in schema`, from block i on; the tokens popped are gone from
\* the schema object.
RECURSIVE ParseBlocks(_, _, _, _)
ParseBlocks(sch, i, st, builders) ==
    IF i > Len(sch) \/ st.err # "none" THEN [schema |-> sch, st |-> st]
    ELSE IF Len(sch[i]) = 0 THEN ParseBlocks(sch, i + 1, st, builders)
    ELSE LET r == ParseBlock(sch[i], st, builders)
         IN  ParseBlocks([sch EXCEPT ![i] = <<sch[i][1], r.commands>>],
                         i + 1, r.st, builders)

\* Unique lcols.
DuplicateLocal(st) == HasDuplicates(st.lcols)

\* Unique fcols.
DuplicateForeign(st) == HasDuplicates(st.fcols)

\* Mutant of UndeclaredParent: the check is left out.
UndeclaredParentNever(st) == FALSE

\* All stattypes declared.

UndeclaredParent(st) ==
    \E f \in DOMAIN st.fcol_to_pcols :
        \E r \in Range(st.fcol_to_pcols[f]) : r \notin DOMAIN st.columns

\* No col both lcol and fcol.
LocalAndForeign(st) == \E l \in Range(st.lcols) : l \in DOMAIN st.fcol_to_pcols

\* No non-default dependencies.
NonLocalDependency(st) ==
    \E i \in 1..Len(st.dependencies) :
        \E col \in Range(st.dependencies[i][2]) : col \notin Range(st.lcols)

\* parse: the value it leaves in the schema object, and what it returns
\* ([err |-> "none", ...]) or raises ([err |-> the exception]).
Parse(sch, builders) ==
    LET r == ParseBlocks(sch, 1, ParseStart, builders)
    IN  [schema |-> r.schema,
         result |->
            IF r.st.err # "none" THEN [err |-> r.st.err]
            ELSE IF \/ DuplicateLocal(r.st)
                    \/ DuplicateForeign(r.st)
                    \/ UndeclaredParent(r.st)
                    \/ LocalAndForeign(r.st)
                    \/ NonLocalDependency(r.st)
            THEN [err |-> "ValueError"]
            ELSE r.st]

(***************************************************************************)
(* Schemas as they are written, and their tokens.                          *)
(***************************************************************************)
BaseBlock(dir, decls, comma) ==
    [kind |-> "base", dir |-> dir, decls |-> decls, parents |-> <<>>, comma |-> comma]

ForeignBlock(dir, target, stattype, parents, comma) ==
    [kind |-> "fp", dir |-> dir, decls |-> << <<target, stattype>> >>,
     parents |-> parents, comma |-> comma]

DependencyBlock(dir, cols, comma) ==
    [kind |-> "dep", dir |-> dir, decls |-> <<>>, parents |-> cols, comma |-> comma]

EmptyBlock ==
    [kind |-> "empty", dir |-> "", decls |-> <<>>, parents |-> <<>>, comma |-> FALSE]

\* The blocks schemas are built of; rf is the registered predictor, zz is
\* not registered, ordinal is no stattype.
AbsBlocks ==
    { BaseBlock("default", << <<"X", "categorical">> >>, FALSE),
      BaseBlock("default", << <<"x", "numerical">>, <<"y", "categorical">> >>, TRUE),
      BaseBlock("crosscat", << <<"y", "NUMERICAL">> >>, FALSE),
      BaseBlock("default", << <<"x", "ordinal">> >>, FALSE),
      ForeignBlock("rf", "Y", "numerical", <<"X">>, FALSE),
      ForeignBlock("rf", "y", "categorical", <<"x", "z">>, TRUE),
      ForeignBlock("RF", "z", "numerical", <<"y">>, FALSE),
      ForeignBlock("rf", "x", "numerical", <<"y">>, FALSE),
      ForeignBlock("rf", "y", "ordinal", <<"x">>, FALSE),
      ForeignBlock("zz", "y", "numerical", <<"x">>, FALSE),
      ForeignBlock("rf", "z", "categorical", <<>>, FALSE),
      DependencyBlock("dependent", <<"x", "y">>, TRUE),
      DependencyBlock("independent", <<"X">>, FALSE),
      DependencyBlock("dependent", <<"z">>, FALSE),
      EmptyBlock }

AbsSchemas == UNION {[1..n -> AbsBlocks] : n \in 0..MaxBlocks}

\* The lists of tokens, joined, with ',' between them where commas are written.
RECURSIVE Join(_, _)
Join(lists, comma) ==
    IF lists = <<>> THEN <<>>
    ELSE IF Len(lists) = 1 THEN lists[1]
    ELSE lists[1] \o (IF comma THEN <<",">> ELSE <<>>) \o Join(Tail(lists), comma)

\* The block bayesdb hands to parse: (directive, tokens), or the empty block.
Render(b) ==
    CASE b.kind = "empty" -> <<>>
      [] b.kind = "base" -> <<b.dir, Join(b.decls, b.comma)>>
      [] b.kind = "fp" ->
            <<b.dir, b.decls[1] \o <<"given">>
                     \o Join([i \in 1..Len(b.parents) |-> <<b.parents[i]>>], b.comma)>>
      [] b.kind = "dep" ->
            <<b.dir, Join([i \in 1..Len(b.parents) |-> <<b.parents[i]>>], b.comma)>>

RenderSchema(abs) == [i \in 1..Len(abs) |-> Render(abs[i])]

\* The builder registered under the name rf.
RfBuilder == [id |-> 1, name |-> "rf"]

\* self.parse(schema)
ParseCall ==
    /\ p_calls < MaxParses
    /\ LET r == Parse(schema, DOMAIN predictor_builder)
       IN  /\ schema' = r.schema
           /\ p_result' = r.result
    /\ p_arg' = schema
    /\ p_calls' = p_calls + 1
    /\ UNCHANGED <<p_abs, topoVars, lifeVars, demoVars>>

ParseNext == ParseCall

(***************************************************************************)
(* The database: bayesdb's generator tables and the composer's tables      *)
(* (composer_schema_1), and the lookups on them.                           *)
(***************************************************************************)
\* The columns of the table the generators model; a column's number is its
\* place in the table.
TableColumns == <<"x", "y", "z">>

\* bayesdb_generator_column_number
ColumnNumber(name) == CHOOSE i \in 1..Len(TableColumns) : TableColumns[i] = name

\* predictor_binary of a foreign column no predictor was trained for.
NULL == 0

\* The database before any generator exists.
EmptyBdb ==
    [generator |-> {},          \* bayesdb_generator: ids
     generator_column |-> {},   \* bayesdb_generator_column: (id, colno)
     generator_model |-> {},    \* bayesdb_generator_model: (id, modelno, iterations)
     cc_id |-> {},              \* (generator_id, crosscat_generator_id)
     column_owner |-> {},       \* (generator_id, colno, local)
     column_parents |-> {},     \* (generator_id, fcolno, pcolno)
     column_toposort |-> {},    \* (generator_id, colno, position)
     column_foreign_predictor |-> {}]
                                \* (generator_id, colno, predictor_name, predictor_binary)

\* cc_id: the rows fetchall() returns; cursor.fetchall()[0] of none of them
\* raises IndexError.
CcRows(db, genid) == {r \in db.cc_id : r[1] = genid}

cc_id(db, genid) == (CHOOSE r \in CcRows(db, genid) : TRUE)[2]

lcols(db, genid) == {r[2] : r \in {o \in db.column_owner : o[1] = genid /\ o[3] = 1}}

fcols(db, genid) == {r[2] : r \in {o \in db.column_owner : o[1] = genid /\ o[3] = 0}}

\* The local parents only: not the code's.
pcolsLocal(db, genid, fcolno) ==
    {r[3] : r \in {p \in db.column_parents : p[1] = genid /\ p[2] = fcolno}}
        \cap {r[2] : r \in {o \in db.column_owner : o[1] = genid /\ o[3] = 1}}

pcols(db, genid, fcolno) ==
    {r[3] : r \in {p \in db.column_parents : p[1] = genid /\ p[2] = fcolno}}

\* topo: the foreign columns, ORDER BY position ASC.
RECURSIVE SortedByPosition(_)
SortedByPosition(rows) ==
    IF rows = {} THEN <<>>
    ELSE LET first == CHOOSE r \in rows : \A q \in rows : r[3] <= q[3]
         IN  <<first[2]>> \o SortedByPosition(rows \ {first})

\* The foreign columns ORDER BY position DESC: not the code's.
topoDescending(db, genid) ==
    LET asc == SortedByPosition({r \in db.column_toposort : r[1] = genid})
    IN  [i \in 1..Len(asc) |-> asc[Len(asc) + 1 - i]]

topo(db, genid) == SortedByPosition({r \in db.column_toposort : r[1] = genid})

PredictorRows(db, genid, fcol) ==
    {r \in db.column_foreign_predictor : r[1] = genid /\ r[2] = fcol}

(***************************************************************************)
(* topological_sort as create_generator calls it: every list it can return *)
(* for a graph, over the orders a dict can have, or the ValueError.        *)
(***************************************************************************)
RECURSIVE TopoScan(_, _, _, _, _)
RECURSIVE TopoLoop(_, _, _)
TopoScan(g, remaining, sorted, pending, found) ==
    IF pending = {}
    THEN IF found THEN TopoLoop(g, remaining, sorted)
         ELSE {[ok |-> FALSE, order |-> <<>>]}
    ELSE UNION {
        IF \E edge \in Range(g[node]) : edge \in remaining
        THEN TopoScan(g, remaining, sorted, pending \ {node}, found)
        ELSE TopoScan(g, remaining \ {node}, Append(sorted, node),
                      pending \ {node}, TRUE)
        : node \in pending }

TopoLoop(g, remaining, sorted) ==
    IF remaining = {} THEN {[ok |-> TRUE, order |-> sorted]}
    ELSE TopoScan(g, remaining, sorted, remaining, FALSE)

\* A scheduler that lists the nodes by descending number, whatever the
\* edges: not the code's.
TopologicalSortDescending(g) ==
    LET RECURSIVE desc(_)
        desc(S) == IF S = {} THEN <<>>
                   ELSE LET m == CHOOSE m \in S : \A q \in S : q <= m
                        IN  <<m>> \o desc(S \ {m})
    IN  {[ok |-> TRUE, order |-> desc(DOMAIN g)]}

TopologicalSort(g) == TopoLoop(g, DOMAIN g, <<>>)

(***************************************************************************)
(* register_foreign_predictor(builder)                                     *)
(***************************************************************************)
\* Two builder objects whose names differ only in case.
Builders == {[id |-> 1, name |-> "rf"], [id |-> 2, name |-> "RF"]}

\* `if builder.name() in self.predictor_builder: raise ValueError`, then
\* `self.predictor_builder[casefold(builder.name())] = builder`.
RegisterForeignPredictor(registry, builder) ==
    IF builder.name \in DOMAIN registry
    THEN [registry |-> registry, result |-> "ValueError"]
    ELSE [registry |-> Put(registry, CaseFold(builder.name), builder), result |-> "ok"]

(***************************************************************************)
(* create_generator(bdb, table, schema, instantiate)                       *)
(***************************************************************************)
\* The schemas composite models are created from.
ChainSchema ==
    << BaseBlock("default", << <<"x", "numerical">> >>, FALSE),
       ForeignBlock("rf", "y", "numerical", <<"x">>, FALSE),
       ForeignBlock("rf", "z", "categorical", <<"y">>, FALSE) >>

CycleSchema ==
    << BaseBlock("default", << <<"x", "numerical">> >>, FALSE),
       ForeignBlock("rf", "y", "numerical", <<"z">>, FALSE),
       ForeignBlock("rf", "z", "categorical", <<"y">>, FALSE) >>

SelfSchema ==
    << BaseBlock("default", << <<"x", "numerical">> >>, FALSE),
       ForeignBlock("rf", "y", "numerical", <<"y">>, FALSE) >>

UndeclaredSchema ==
    << BaseBlock("default", << <<"x", "numerical">> >>, FALSE),
       ForeignBlock("rf", "y", "numerical", <<"z">>, FALSE) >>

LocalSchema ==
    << BaseBlock("default", << <<"x", "numerical">>, <<"y", "categorical">> >>, TRUE) >>

LifeSchemas == {ChainSchema, CycleSchema, SelfSchema, UndeclaredSchema, LocalSchema}

\* The rows the savepoint of create_generator inserts, given the order
\* topological_sort returned.
ComposerRows(db, genid, ccid, colnos, fcolno_to_pcolnos, order, fpred) ==
    [db EXCEPT
        !.cc_id = @ \cup {<<genid, ccid>>},
        !.column_owner = @ \cup
            {<<genid, c, IF c \in DOMAIN fcolno_to_pcolnos THEN 0 ELSE 1>> : c \in colnos},
        !.column_parents = @ \cup
            UNION {{<<genid, f, p>> : p \in Range(fcolno_to_pcolnos[f])} : f \in DOMAIN fcolno_to_pcolnos},
        !.column_toposort = @ \cup
            {<<genid, order[i], i - 1>> : i \in 1..Len(order)},
        !.column_foreign_predictor = @ \cup
            {<<genid, f, CaseFold(fpred[CaseFold(TableColumns[f])]), NULL>> : f \in DOMAIN fcolno_to_pcolnos}]

\* create_generator: what it can leave in the database and how it ends.
\* instantiate makes generator genid, CREATE GENERATOR makes generator ccid;
\* an exception inside the savepoint rolls back the rows inserted inside it.
CreateGenerator(db, registry, sch, genid, ccid) ==
    LET pr == Parse(RenderSchema(sch), DOMAIN registry).result
    IN  IF pr.err # "none"
        THEN {[bdb |-> db, result |-> "SchemaError"]}
        ELSE
        LET colnos == {ColumnNumber(c) : c \in DOMAIN pr.columns}
            \* instantiate(columns.items())
            db1 == [db EXCEPT
                       !.generator = @ \cup {genid},
                       !.generator_column = @ \cup {<<genid, c>> : c \in colnos}]
            \* CREATE GENERATOR <name>_cc ... USING crosscat(<lcols>, <dependencies>)
            db2 == [db1 EXCEPT
                       !.generator = @ \cup {ccid},
                       !.generator_column = @ \cup
                           {<<ccid, ColumnNumber(c)>> : c \in Range(pr.lcols)}]
            fcolno_to_pcolnos == [f \in {ColumnNumber(c) : c \in DOMAIN pr.fcol_to_pcols} |->
                         [i \in 1..Len(pr.fcol_to_pcols[TableColumns[f]]) |->
                             ColumnNumber(pr.fcol_to_pcols[TableColumns[f]][i])]]
        IN  \* PRIMARY KEY(generator_id, fcolno, pcolno), CHECK (fcolno != pcolno)
            IF \E f \in DOMAIN fcolno_to_pcolnos : f \in Range(fcolno_to_pcolnos[f]) \/ HasDuplicates(fcolno_to_pcolnos[f])
            THEN {[bdb |-> db2, result |-> "IntegrityError"]}
            ELSE {IF t.ok
                  THEN [bdb |-> ComposerRows(db2, genid, ccid, colnos, fcolno_to_pcolnos,
                                             t.order, pr.fcol_to_fpred),
                        result |-> "ok"]
                  ELSE [bdb |-> db2, result |-> "CyclicError"]
                  : t \in TopologicalSort(fcolno_to_pcolnos)}

(***************************************************************************)
(* drop_generator(bdb, genid)                                              *)
(***************************************************************************)
\* Mutant of Evict: the cache is left as it is.
EvictNothing(cache, genid) == cache

\* The entries of the cache whose key is not of generator genid.
Evict(cache, genid) == [k \in {q \in DOMAIN cache : q[1] # genid} |-> cache[k]]

\* drop_generator: the cache is cleared first; cc_id of a generator without
\* linkage raises IndexError; the rows of the five tables are deleted and the
\* internal crosscat generator is dropped.
DropGenerator(db, cache, genid) ==
    IF CcRows(db, genid) = {}
    THEN [bdb |-> db, cache |-> Evict(cache, genid), result |-> "IndexError"]
    ELSE LET ccid == cc_id(db, genid)
         IN  [bdb |-> [db EXCEPT
                  !.column_foreign_predictor = {r \in @ : r[1] # genid},
                  !.cc_id = {r \in @ : r[1] # genid},
                  !.column_toposort = {r \in @ : r[1] # genid},
                  !.column_parents = {r \in @ : r[1] # genid},
                  !.column_owner = {r \in @ : r[1] # genid},
                  \* DROP GENERATOR <name>_cc
                  !.generator = @ \ {ccid},
                  !.generator_column = {r \in @ : r[1] # ccid},
                  !.generator_model = {r \in @ : r[1] # ccid}],
              cache |-> Evict(cache, genid),
              result |-> "ok"]

\* What bayesdb's DROP GENERATOR does after the metamodel dropped its part.
DropGeneratorRows(db, genid) ==
    [db EXCEPT !.generator = @ \ {genid},
               !.generator_column = {r \in @ : r[1] # genid},
               !.generator_model = {r \in @ : r[1] # genid}]

(***************************************************************************)
(***************************************************************************)
(* drop_models(bdb, genid, modelnos)                                       *)
(***************************************************************************)
\* A drop_models that deletes the predictors of the replicates: not the
\* code's.
DropModelsDeleting(db, cache, genid, modelnos) ==
    [bdb |-> [db EXCEPT !.column_foreign_predictor = {r \in @ : r[1] # genid}],
     cache |-> Evict(cache, genid),
     result |-> "NotImplementedError"]

\* drop_models: raise NotImplementedError, whatever the arguments.
DropModels(db, cache, genid, modelnos) ==
    [bdb |-> db, cache |-> cache, result |-> "NotImplementedError"]

(* initialize_models(bdb, genid, modelnos, model_config)                   *)
(***************************************************************************)
\* The orders `for fcol in self.fcols(bdb, genid)` can visit a set in.
Orders(S) ==
    {o \in [1..Cardinality(S) -> S] : \A i, j \in 1..Cardinality(S) : o[i] = o[j] => i = j}

\* predictor_name: the name assigned to a foreign column.
predictor_name(db, genid, fcol) == (CHOOSE r \in PredictorRows(db, genid, fcol) : TRUE)[3]

\* UPDATE bayesdb_composer_column_foreign_predictor SET predictor_binary =
\* the bytes of a newly trained predictor.
StoreBinary(db, genid, fcol) ==
    [db EXCEPT !.column_foreign_predictor =
        {IF r[1] = genid /\ r[2] = fcol THEN <<r[1], r[2], r[3], r[4] + 1>> ELSE r : r \in @}]

\* The loop over the foreign columns from the i-th of order on: the builder of
\* a column may be missing from the registry (KeyError), and create or
\* serialize may raise; each column's bytes are stored in a savepoint of
\* their own.
RECURSIVE Train(_, _, _, _, _, _)
Train(db, registry, genid, order, i, creates) ==
    IF i > Len(order) THEN {[bdb |-> db, result |-> "ok", creates |-> creates]}
    ELSE IF predictor_name(db, genid, order[i]) \notin DOMAIN registry
    THEN {[bdb |-> db, result |-> "KeyError", creates |-> creates]}
    ELSE LET \* builder.create(bdb, table_name, targets, conditions)
             create == [builder |-> registry[predictor_name(db, genid, order[i])].id,
                        targets |-> <<order[i]>>,
                        conditions |-> pcols(db, genid, order[i])]
         IN  {[bdb |-> db, result |-> "BuilderError", creates |-> Append(creates, create)]}
             \cup Train(StoreBinary(db, genid, order[i]), registry, genid, order, i + 1,
                        Append(creates, create))

bayesdb_generator_has_model(db, id, modelno) ==
    \E r \in db.generator_model : r[1] = id /\ r[2] = modelno

\* An INITIALIZE that makes model 0 only: not the code's.
InitializeCcOne(db, ccid, n) ==
    [db EXCEPT !.generator_model = @ \cup {<<ccid, 0, 0>>}]

\* INITIALIZE n MODELS FOR <cc>: the models 0..n-1 of the crosscat generator
\* are created, with no iterations, unless one of them exists.
InitializeCc(db, ccid, n) ==
    [db EXCEPT !.generator_model = @ \cup {<<ccid, m, 0>> : m \in 0..(n - 1)}]

\* What bayesdb's INITIALIZE MODELS does around a metamodel's
\* initialize_models that returned: the models of the generator are recorded,
\* with no iterations.
InitializeModelsRows(db, genid, modelnos) ==
    [db EXCEPT !.generator_model = @ \cup {<<genid, modelnos[i], 0>> : i \in 1..Len(modelnos)}]

\* initialize_models: the outcomes it can have.
InitializeModels(db, registry, genid, modelnos) ==
    IF CcRows(db, genid) = {}
    THEN {[bdb |-> db, result |-> "IndexError", creates |-> <<>>]}
    ELSE LET ccid == cc_id(db, genid)
             n == Len(modelnos)
         IN  IF \E m \in 0..(n - 1) : bayesdb_generator_has_model(db, ccid, m)
             THEN {[bdb |-> db, result |-> "BQLError", creates |-> <<>>]}
             ELSE UNION {Train(InitializeCc(db, ccid, n), registry, genid, o, 1, <<>>)
                         : o \in Orders(fcols(db, genid))}

(***************************************************************************)
(* predictor(bdb, genid, fcol)                                             *)
(***************************************************************************)
\* What builder.deserialize returns for the stored bytes.
Deserialize(builder, binary) == [builder |-> builder.id, binary |-> binary]

\* Mutant of CacheHit: every lookup reads and deserializes.
CacheHitNever(cache, key) == FALSE

\* Whether the key is served from the cache.
CacheHit(cache, key) == key \in DOMAIN cache

\* predictor: a hit returns the cached instance; a miss reads the row
\* (IndexError when there is none), looks the builder up (LookupError when it
\* is not registered) and caches what deserialize returns.  deserialize of
\* the bytes of a trained predictor returns; of NULL it may raise.
Predictor(db, registry, cache, genid, fcol) ==
    LET key == <<genid, fcol>>
        miss(result) == [cache |-> cache, result |-> result, deserialize |-> "no"]
    IN  IF CacheHit(cache, key)
        THEN {[cache |-> cache, result |-> "cached", deserialize |-> "no"]}
        ELSE IF PredictorRows(db, genid, fcol) = {} THEN {miss("IndexError")}
        ELSE LET row == CHOOSE r \in PredictorRows(db, genid, fcol) : TRUE
             IN  IF row[3] \notin DOMAIN registry THEN {miss("LookupError")}
                 ELSE {[cache |-> Put(cache, key, Deserialize(registry[row[3]], row[4])),
                        result |-> "deserialized", deserialize |-> "returned"]}
                      \cup (IF row[4] = NULL
                            THEN {[cache |-> cache, result |-> "DeserializeError",
                                   deserialize |-> "raised"]}
                            ELSE {})

(***************************************************************************)
(* simulate(bdb, genid, modelno, constraints, colnos, numpredictions)      *)
(***************************************************************************)
\* A result of a step that can raise: err names the exception, "none" when
\* it returned val.
Ok(val) == [err |-> "none", val |-> val]

Err(e) == [err |-> e, val |-> <<>>]

\* bayesdb_generator_column_name: the name of a column of a generator.
HasColumn(db, id, colno) == <<id, colno>> \in db.generator_column

\* cc_colnos: the names of the columns in the composite model, then their
\* numbers in the crosscat generator.
cc_colnos(db, genid, colnos) ==
    IF \E i \in 1..Len(colnos) : ~HasColumn(db, genid, colnos[i]) THEN Err("NoSuchColumn")
    ELSE IF colnos = <<>> THEN Ok(<<>>)
    ELSE IF CcRows(db, genid) = {} THEN Err("IndexError")
    ELSE IF \E i \in 1..Len(colnos) :
                ~HasColumn(db, cc_id(db, genid), ColumnNumber(TableColumns[colnos[i]]))
    THEN Err("NoSuchColumn")
    ELSE Ok([i \in 1..Len(colnos) |-> ColumnNumber(TableColumns[colnos[i]])])

\* [(self.cc_colno(bdb, genid, c), v) for c, v in constraints]
RECURSIVE cc_constraints(_, _, _)
cc_constraints(db, genid, constraints) ==
    IF constraints = <<>> THEN Ok(<<>>)
    ELSE LET c == cc_colnos(db, genid, <<constraints[1][1]>>)
             rest == cc_constraints(db, genid, Tail(constraints))
         IN  IF c.err # "none" THEN c
             ELSE IF rest.err # "none" THEN rest
             ELSE Ok(<< <<c.val[1], constraints[1][2]>> >> \o rest.val)

\* The values columns take.
Values == {0, 1}

RECURSIVE SumValues(_)
SumValues(pairs) == IF pairs = <<>> THEN 0 ELSE pairs[1][2] + SumValues(Tail(pairs))

\* The crosscat metamodel's simulate: n rows of one value per target column.
CcSimulate(call) ==
    [k \in 1..call.n |->
        [j \in 1..Len(call.Q) |-> (call.Q[j] + k + call.modelno + SumValues(call.Y)) % 2]]

\* The record of a call of the crosscat metamodel.
CcCall(fn, ccid, modelno, Y, Q, n) ==
    [fn |-> fn, genid |-> ccid, modelno |-> modelno, Y |-> Y, Q |-> Q, n |-> n]

\* Mutant of FastTargets: the targets are handed over in reverse order.
FastTargetsReversed(Q_cc) == [i \in 1..Len(Q_cc) |-> Q_cc[Len(Q_cc) + 1 - i]]

\* The targets the fast path hands to crosscat.
FastTargets(Q_cc) == Q_cc

\* The delegation to crosscat when no column of the query is foreign.
SimulateFast(db, genid, modelno, constraints, colnos, numpredictions) ==
    LET Y_cc == cc_constraints(db, genid, constraints)
        Q_cc == cc_colnos(db, genid, colnos)
        none(e) == [err |-> e, rows |-> <<>>, calls |-> <<>>]
    IN  IF Y_cc.err # "none" THEN none(Y_cc.err)
        ELSE IF Q_cc.err # "none" THEN none(Q_cc.err)
        ELSE IF CcRows(db, genid) = {} THEN none("IndexError")
        ELSE LET call == CcCall("simulate", cc_id(db, genid), modelno, Y_cc.val,
                                FastTargets(Q_cc.val), numpredictions)
             IN  [err |-> "none", rows |-> CcSimulate(call), calls |-> <<call>>]

\* predictor() as the queries call it.  mem holds the cache, for each key what
\* deserialize did since the key was last evicted, and the number of calls
\* of predictor().
NoMem(cache, log) == [cache |-> cache, log |-> log, lookups |-> 0]

LogOf(log, key) == IF key \in DOMAIN log THEN log[key] ELSE <<>>

Lookup(db, registry, mem, genid, fcol) ==
    {[mem |-> [cache |-> r.cache,
               log |-> IF r.deserialize = "no" THEN mem.log
                       ELSE Put(mem.log, <<genid, fcol>>,
                                Append(LogOf(mem.log, <<genid, fcol>>), r.deserialize)),
               lookups |-> mem.lookups + 1],
      result |-> r.result]
     : r \in Predictor(db, registry, mem.cache, genid, fcol)}

\* The foreign predictor's simulate(1, conditions)[0] and logpdf(value,
\* conditions); conditions are the values of the parents.
RECURSIVE SumOver(_, _)
SumOver(f, S) ==
    IF S = {} THEN 0 ELSE LET c == CHOOSE c \in S : TRUE IN f[c] + SumOver(f, S \ {c})

PredictorSimulate(instance, sample, parents) ==
    (instance.binary + SumOver(sample, parents)) % 2

PredictorLogpdf(instance, value, sample, parents) ==
    0 - ((instance.binary + value + SumOver(sample, parents)) % 2)

\* crosscat's column_value_probability, as a log.
CcLogProbability(col, val, Y) == 0 - ((col + val + SumValues(Y)) % 2)

\* A set of column numbers as a list.
RECURSIVE Ascending(_)
Ascending(S) ==
    IF S = {} THEN <<>>
    ELSE LET m == CHOOSE m \in S : \A q \in S : m <= q IN <<m>> \o Ascending(S \ {m})

\* _joint_logpdf_cc(bdb, genid, modelno, Q, []): the chain rule over Q; with
\* no evidence nothing is ignored.  Gives the log probability and the calls
\* of crosscat's column_value_probability.
RECURSIVE ChainRule(_, _, _, _, _)
ChainRule(ccid, modelno, Q_cc, Y_cc, acc) ==
    IF Q_cc = <<>> THEN acc
    ELSE ChainRule(ccid, modelno, Tail(Q_cc), Append(Y_cc, Q_cc[1]),
            [prob |-> acc.prob + CcLogProbability(Q_cc[1][1], Q_cc[1][2], Y_cc),
             calls |-> Append(acc.calls,
                 CcCall("column_value_probability", ccid, modelno, Y_cc, <<Q_cc[1]>>, 1))])

\* The loop `for fcol in self.topo(bdb, genid)` for one sample, from the i-th
\* foreign column on.
RECURSIVE Forward(_, _, _, _, _, _, _, _)
Forward(db, registry, mem, genid, order, i, sample, w) ==
    IF i > Len(order) THEN {[mem |-> mem, err |-> "none", sample |-> sample, w |-> w]}
    ELSE UNION {
        LET fcol == order[i]
            parents == pcols(db, genid, fcol)
            stop(e) == {[mem |-> r.mem, err |-> e, sample |-> sample, w |-> w]}
        IN  IF r.result \notin {"cached", "deserialized"} THEN stop(r.result)
            ELSE IF ~(parents \subseteq DOMAIN sample) THEN stop("AssertionError")
            ELSE LET instance == r.mem.cache[<<genid, fcol>>]
                 IN  IF fcol \in DOMAIN sample
                     THEN Forward(db, registry, r.mem, genid, order, i + 1, sample,
                             w + PredictorLogpdf(instance, sample[fcol], sample, parents))
                     ELSE Forward(db, registry, r.mem, genid, order, i + 1,
                             Put(sample, fcol, PredictorSimulate(instance, sample, parents)),
                             w)
        : r \in Lookup(db, registry, mem, genid, order[i]) }

\* The loop `for k in xrange(n_samples)`, from the k-th sample on.
RECURSIVE SampleLoop(_, _, _, _, _, _, _, _, _)
SampleLoop(db, registry, genid, Y, Q_cc, V_cc, w0, k, acc) ==
    IF acc.err # "none" \/ k > Len(V_cc) THEN {acc}
    ELSE UNION {
        SampleLoop(db, registry, genid, Y, Q_cc, V_cc, w0, k + 1,
            [mem |-> f.mem, err |-> f.err,
             samples |-> Append(acc.samples, f.sample),
             weights |-> Append(acc.weights, f.w)])
        : f \in Forward(db, registry, acc.mem, genid, topo(db, genid), 1,
                    [c \in {Y[j][1] : j \in 1..Len(Y)} \cup Range(Q_cc) |->
                        IF \E j \in 1..Len(Y) : Y[j][1] = c
                        THEN Y[CHOOSE j \in 1..Len(Y) :
                                 /\ Y[j][1] = c
                                 /\ \A l \in 1..Len(Y) : Y[l][1] = c => l <= j][2]
                        ELSE V_cc[k][CHOOSE j \in 1..Len(Q_cc) : Q_cc[j] = c]],
                    w0) }

\* _weighted_sample(bdb, genid, modelno, Y, n_samples): the samples, their
\* weights and the calls of crosscat, or the exception.
WeightedSample(db, registry, mem, genid, modelno, Y, count) ==
    LET none(e) == {[mem |-> mem, err |-> e, samples |-> <<>>, weights |-> <<>>,
                     calls |-> <<>>]}
        Y_cc == SelectSeq(Y, LAMBDA y : y[1] \in lcols(db, genid))
        Yt == cc_constraints(db, genid, Y_cc)
    IN  IF Y_cc # <<>> /\ Yt.err # "none" THEN none(Yt.err)
        ELSE IF CcRows(db, genid) = {} THEN none("IndexError")
        ELSE
        LET ccid == cc_id(db, genid)
            chain == IF Y_cc = <<>> THEN [prob |-> 0, calls |-> <<>>]
                     ELSE ChainRule(ccid, modelno, Yt.val, <<>>, [prob |-> 0, calls |-> <<>>])
            Q_cc == Ascending(lcols(db, genid) \ {Y[j][1] : j \in 1..Len(Y)})
            call == CcCall("simulate", ccid, modelno, Y_cc, Q_cc, count)
        IN  {[mem |-> s.mem, err |-> s.err, samples |-> s.samples, weights |-> s.weights,
              calls |-> Append(chain.calls, call)]
             : s \in SampleLoop(db, registry, genid, Y, Q_cc, CcSimulate(call), chain.prob, 1,
                        [mem |-> mem, err |-> "none", samples |-> <<>>, weights |-> <<>>])}

\* dict.get of a column the sample does not hold.
None == 0 - 1

\* The resampling loop of simulate, from the i-th prediction on: a weighted
\* sample of n_samples hypotheses, a draw among those of positive
\* probability (every weight is finite), and the targets read from the drawn
\* hypothesis.
RECURSIVE Resample(_, _, _, _, _, _, _, _, _)
Resample(db, registry, genid, modelno, constraints, colnos, numpredictions, i, acc) ==
    IF acc.err # "none" \/ i > numpredictions THEN {acc}
    ELSE UNION {
        IF ws.err # "none"
        THEN {[mem |-> ws.mem, err |-> ws.err, rows |-> <<>>,
               calls |-> acc.calls \o ws.calls, pools |-> acc.pools]}
        ELSE UNION {
            Resample(db, registry, genid, modelno, constraints, colnos, numpredictions, i + 1,
                [mem |-> ws.mem, err |-> "none",
                 rows |-> Append(acc.rows,
                     [j \in 1..Len(colnos) |->
                         IF colnos[j] \in DOMAIN ws.samples[draw]
                         THEN ws.samples[draw][colnos[j]] ELSE None]),
                 calls |-> acc.calls \o ws.calls,
                 pools |-> Append(acc.pools, [samples |-> ws.samples, weights |-> ws.weights,
                                              draw |-> draw])])
            : draw \in 1..Len(ws.samples) }
        : ws \in WeightedSample(db, registry, acc.mem, genid, modelno, constraints, n_samples) }

\* simulate: the outcomes it can have.
Simulate(db, registry, mem, genid, modelno, constraints, colnos, numpredictions) ==
    LET all_cols == {constraints[j][1] : j \in 1..Len(constraints)} \cup Range(colnos)
    IN  IF \A f \in fcols(db, genid) : f \notin all_cols
        THEN LET r == SimulateFast(db, genid, modelno, constraints, colnos, numpredictions)
             IN  {[mem |-> mem, err |-> r.err, rows |-> r.rows, calls |-> r.calls,
                   pools |-> <<>>]}
        ELSE Resample(db, registry, genid, modelno, constraints, colnos, numpredictions, 1,
                      [mem |-> mem, err |-> "none", rows |-> <<>>, calls |-> <<>>,
                       pools |-> <<>>])

(***************************************************************************)
(* _joint_logpdf(bdb, genid, modelno, Q, Y, n_samples)                     *)
(***************************************************************************)
\* Python values of different types: a column number and a pin (a pair of a
\* column number and a value) are never equal.
PyInt(n) == [type |-> "int", val |-> <<n>>]

PyTuple(t) == [type |-> "tuple", val |-> t]

\* Mutant of Contradicts: only the first pin of Q is compared with Y.
ContradictsFirst(Q, Y) ==
    \E j \in 1..Len(Y) : Q[1][1] = Y[j][1] /\ Q[1][2] # Y[j][2]

\* The loop over itertools.product(Q, Y) returns -inf at the first pair of
\* pins of one column with different values; it ends that way iff there is
\* such a pair.
Contradicts(Q, Y) ==
    \E i \in 1..Len(Q), j \in 1..Len(Y) : Q[i][1] = Y[j][1] /\ Q[i][2] # Y[j][2]

\* ignore: the columns Q and Y pin to the same value.
Ignore(Q, Y) ==
    {PyInt(Q[i][1]) : i \in {i \in 1..Len(Q) : \E j \in 1..Len(Y) : Q[i] = Y[j]}}

\* Q = [q for q in Q if q not in ignore]
Reconciled(Q, ignore) == SelectSeq(Q, LAMBDA q : PyTuple(q) \notin ignore)

\* _joint_logpdf: -inf, or the weights of the two weighted samples whose
\* logmeanexp it subtracts, with the evidence lists it handed to
\* _weighted_sample and the calls of crosscat.
JointLogpdf(db, registry, mem, genid, modelno, Q, Y, count) ==
    LET end(m, e, inf, qy, y, ev, calls) ==
            [mem |-> m, err |-> e, inf |-> inf, QY_weights |-> qy, Y_weights |-> y,
             evidence |-> ev, calls |-> calls]
    IN  IF Len(Q) = 0 THEN {end(mem, "ValueError", FALSE, <<>>, <<>>, <<>>, <<>>)}
        ELSE IF Contradicts(Q, Y) THEN {end(mem, "none", TRUE, <<>>, <<>>, <<>>, <<>>)}
        ELSE
        LET QY == Reconciled(Q, Ignore(Q, Y)) \o Y
        IN  UNION {
                IF a.err # "none"
                THEN {end(a.mem, a.err, FALSE, <<>>, <<>>, <<QY>>, a.calls)}
                ELSE {IF b.err # "none"
                      THEN end(b.mem, b.err, FALSE, <<>>, <<>>, <<QY, Y>>, a.calls \o b.calls)
                      ELSE end(b.mem, "none", FALSE, a.weights, b.weights, <<QY, Y>>,
                               a.calls \o b.calls)
                      : b \in WeightedSample(db, registry, a.mem, genid, modelno, Y, count)}
                : a \in WeightedSample(db, registry, mem, genid, modelno, QY, count) }

(***************************************************************************)
(* _column_dependence_probability(bdb, genid, modelno, colno0, colno1)     *)
(***************************************************************************)
\* Python's bool and float, and the truth value any() tests.
PyBool(b) == [type |-> "bool", val |-> <<b>>]

PyFloat(x) == [type |-> "float", val |-> <<x>>]

Truthy(v) == IF v.type = "bool" THEN v.val[1] ELSE v.val[1] # 0

\* Mutant of AnyDependent: never dependent.
AnyDependentNever(results) == Ok(PyBool(FALSE))

\* any(...) over the results of the recursive calls.
AnyDependent(results) ==
    IF \E r \in results : r.err # "none"
    THEN CHOOSE r \in results : r.err # "none"
    ELSE Ok(PyBool(\E r \in results : Truthy(r.val)))

\* Mutant of ForeignOfPair: the first column, foreign or not.
ForeignFirst(c0_foreign, colno0, colno1) == colno0

\* fcol = colno0 if c0_foreign else colno1
ForeignOfPair(c0_foreign, colno0, colno1) == IF c0_foreign THEN colno0 ELSE colno1

\* _column_dependence_probability for a replicate number; ccdep is what
\* crosscat answers.
RECURSIVE ColumnDependence(_, _, _, _, _, _)
ColumnDependence(db, ccdep, genid, modelno, colno0, colno1) ==
    LET c0_foreign == colno0 \in fcols(db, genid)
        c1_foreign == colno1 \in fcols(db, genid)
        cc0 == cc_colnos(db, genid, <<colno0>>)
        cc1 == cc_colnos(db, genid, <<colno1>>)
    IN  IF colno0 = colno1 THEN Ok(PyInt(1))
        ELSE IF ~(c0_foreign \/ c1_foreign)
        THEN IF CcRows(db, genid) = {} THEN Err("IndexError")
             ELSE IF cc0.err # "none" THEN cc0
             ELSE IF cc1.err # "none" THEN cc1
             ELSE Ok(PyFloat(ccdep[<<cc0.val[1], cc1.val[1]>>]))
        ELSE IF colno0 \in pcols(db, genid, colno1) \/ colno1 \in pcols(db, genid, colno0)
        THEN Ok(PyInt(1))
        ELSE IF c0_foreign # c1_foreign
        THEN LET fcol == ForeignOfPair(c0_foreign, colno0, colno1)
                 lcol == IF c0_foreign THEN colno1 ELSE colno0
             IN  AnyDependent({ColumnDependence(db, ccdep, genid, modelno, pcol, lcol)
                               : pcol \in pcols(db, genid, fcol)})
        ELSE AnyDependent({ColumnDependence(db, ccdep, genid, modelno, pcol0, pcol1)
                           : pcol0 \in pcols(db, genid, colno0),
                             pcol1 \in pcols(db, genid, colno1)})

(***************************************************************************)
(* conditional_mutual_information(bdb, genid, modelno, X, W, Z, Y)         *)
(***************************************************************************)
\* s[start:stop]: an index below 0 counts from the end, and every index is
\* cut to 0..len(s).
PyIndex(s, i) ==
    LET j == IF i < 0 THEN i + Len(s) ELSE i
    IN  IF j < 0 THEN 0 ELSE IF j > Len(s) THEN Len(s) ELSE j

PySlice(s, start, stop) ==
    LET a == PyIndex(s, start)
        b == PyIndex(s, stop)
    IN  IF b <= a THEN <<>> ELSE [i \in 1..(b - a) |-> s[a + i]]

\* zip(a, b): pairs up to the shorter list.
Zip(a, b) ==
    [i \in 1..(IF Len(a) < Len(b) THEN Len(a) ELSE Len(b)) |-> <<a[i], b[i]>>]

\* Mutant of Overlap: only a column in two of the lists counts.
OverlapAcross(X, W, Z, Y) ==
    LET ycols == {Y[j][1] : j \in 1..Len(Y)}
    IN  \/ Range(X) \cap (Range(W) \cup Range(Z) \cup ycols) # {}
        \/ Range(W) \cap (Range(Z) \cup ycols) # {}
        \/ Range(Z) \cap ycols # {}

\* len(all_cols) != len(set(all_cols))
Overlap(X, W, Z, Y) == HasDuplicates(X \o W \o Z \o [j \in 1..Len(Y) |-> Y[j][1]])

\* raise ValueError('Duplicate colnos received in
\* conditional_mutual_information. ...')
DuplicateColnos == "ValueError: Duplicate colnos"

\* The pins of one draw s: Qx, Qw and Qz as the code zips them.
DrawPins(X, W, Z, s) ==
    [Qx |-> Zip(X, PySlice(s, 0, Len(X))),
     Qw |-> Zip(Z, PySlice(s, Len(X), 0 - Len(Z))),
     Qz |-> Zip(W, PySlice(s, 0 - Len(Z), Len(s)))]

\* The queries _joint_logpdf is called with for one draw, in the order of
\* the calls: Qz (when Z is not empty), Qx+Qw+Qz, Qx+Qz, Qw+Qz.
DrawQueries(Z, pins) ==
    (IF Z # <<>> THEN <<pins.Qz>> ELSE <<>>)
    \o <<pins.Qx \o pins.Qw \o pins.Qz, pins.Qx \o pins.Qz, pins.Qw \o pins.Qz>>

\* The calls of _joint_logpdf for the queries from the i-th on; the first
\* exception ends them.
RECURSIVE Densities(_, _, _, _, _, _, _, _, _)
Densities(db, registry, genid, modelno, queries, Y, count, i, acc) ==
    IF acc.err # "none" \/ i > Len(queries) THEN {acc}
    ELSE UNION {
        Densities(db, registry, genid, modelno, queries, Y, count, i + 1,
            [mem |-> d.mem, err |-> d.err,
             queries |-> Append(acc.queries, queries[i]),
             logps |-> Append(acc.logps,
                 [inf |-> d.inf, QY_weights |-> d.QY_weights, Y_weights |-> d.Y_weights]),
             calls |-> acc.calls \o d.calls])
        : d \in JointLogpdf(db, registry, acc.mem, genid, modelno, queries[i], Y, count) }

RECURSIVE Concat(_)
Concat(lists) == IF lists = <<>> THEN <<>> ELSE lists[1] \o Concat(Tail(lists))

\* conditional_mutual_information: the overlap error, or the draws, the
\* queries of every draw and their log-densities; the result is the sum over
\* the draws of logpz + logpxwz - logpxz - logpwz, divided by numsamples.
ConditionalMutualInformation(db, registry, mem, genid, modelno, X, W, Z, Y, numsamples) ==
    LET end(m, e, draws, queries, logps, calls) ==
            [mem |-> m, err |-> e, draws |-> draws, queries |-> queries, logps |-> logps,
             calls |-> calls]
    IN  IF Overlap(X, W, Z, Y) THEN {end(mem, DuplicateColnos, <<>>, <<>>, <<>>, <<>>)}
        ELSE UNION {
            IF sim.err # "none" THEN {end(sim.mem, sim.err, <<>>, <<>>, <<>>, sim.calls)}
            ELSE {end(d.mem, d.err, sim.rows, d.queries, d.logps, d.calls)
                  : d \in Densities(db, registry, genid, modelno,
                             Concat([k \in 1..Len(sim.rows) |->
                                 DrawQueries(Z, DrawPins(X, W, Z, sim.rows[k]))]),
                             Y, n_samples, 1,
                             [mem |-> sim.mem, err |-> "none", queries |-> <<>>,
                              logps |-> <<>>, calls |-> sim.calls])}
            : sim \in Simulate(db, registry, mem, genid, modelno, Y, X \o W \o Z, numsamples) }

(***************************************************************************)
(* row_similarity(bdb, genid, modelno, rowid, target_rowid, colnos)        *)
(***************************************************************************)
\* row_similarity: the call of crosscat's row_similarity it makes, or the
\* exception of the translation of the columns.
RowSimilarity(db, genid, modelno, rowid, target_rowid, colnos) ==
    LET translated == cc_colnos(db, genid, colnos)
    IN  IF translated.err # "none" THEN [err |-> translated.err, calls |-> <<>>]
        ELSE IF CcRows(db, genid) = {} THEN [err |-> "IndexError", calls |-> <<>>]
        ELSE [err |-> "none",
              calls |-> << [fn |-> "row_similarity", genid |-> cc_id(db, genid),
                            modelno |-> modelno, rowid |-> rowid,
                            target_rowid |-> target_rowid, colnos |-> translated.val] >>]

(***************************************************************************)
(* analyze_models(bdb, genid, modelnos, iterations)                        *)
(***************************************************************************)
\* modelnos=None, the default.
Unspecified == <<None>>

\* An UPDATE of every model of the generator, whatever modelnos: not the
\* code's.
AddIterationsToAll(db, id, modelnos, iterations) ==
    [db EXCEPT !.generator_model =
        {<<r[1], r[2], IF r[1] = id THEN r[3] + iterations ELSE r[3]>> : r \in @}]

\* UPDATE bayesdb_generator_model SET iterations = iterations + :iterations
\* WHERE generator_id = :generator_id AND modelno = :modelno, executed for
\* each element of modelnos.
AddIterations(db, id, modelnos, iterations) ==
    [db EXCEPT !.generator_model =
        {<<r[1], r[2],
           IF r[1] = id
           THEN r[3] + iterations * Cardinality({i \in 1..Len(modelnos) : modelnos[i] = r[2]})
           ELSE r[3]>> : r \in @}]

\* `while bayesdb_generator_has_model(bdb, genid, n_model): n_model += 1`
RECURSIVE CountModels(_, _, _)
CountModels(db, id, n_model) ==
    IF bayesdb_generator_has_model(db, id, n_model)
    THEN CountModels(db, id, n_model + 1)
    ELSE n_model

\* crosscat's analyze_models on the base generator: the models named (all
\* of them by default) are analyzed and their iterations counted; for a
\* model that does not exist it may raise.
CcAnalyzeModels(db, ccid, modelnos, iterations) ==
    LET existing == {r[2] : r \in {q \in db.generator_model : q[1] = ccid}}
        list == IF modelnos = Unspecified THEN Ascending(existing) ELSE modelnos
        done == [bdb |-> AddIterations(db, ccid, list, iterations), result |-> "ok"]
    IN  IF Range(list) \subseteq existing THEN {done}
        ELSE {done, [bdb |-> db, result |-> "BQLError"]}

\* analyze_models: the outcomes it can have.
AnalyzeModels(db, genid, modelnos, iterations) ==
    IF CcRows(db, genid) = {}
    THEN {[bdb |-> db, result |-> "IndexError", calls |-> <<>>]}
    ELSE LET call == [fn |-> "analyze_models", genid |-> cc_id(db, genid),
                      modelnos |-> modelnos, iterations |-> iterations]
         IN  UNION {
        IF cc.result # "ok" THEN {[bdb |-> db, result |-> cc.result, calls |-> <<call>>]}
        ELSE LET list == IF modelnos = Unspecified
                         THEN [i \in 1..CountModels(cc.bdb, genid, 0) |-> i - 1]
                         ELSE modelnos
             IN  {[bdb |-> AddIterations(cc.bdb, genid, list, iterations), result |-> "ok",
                   calls |-> <<call>>]}
        : cc \in CcAnalyzeModels(db, cc_id(db, genid), modelnos, iterations) }

(***************************************************************************)
(* column_dependence_probability, column_mutual_information and            *)
(* column_value_probability: the aggregators over the models.              *)
(***************************************************************************)
\* The first exception of a list of results, "none" without one.
FirstError(results) ==
    IF \A i \in 1..Len(results) : results[i].err = "none" THEN "none"
    ELSE results[CHOOSE i \in 1..Len(results) :
                    /\ results[i].err # "none"
                    /\ \A j \in 1..(i - 1) : results[j].err = "none"].err

\* n_model = 1; while bayesdb_generator_has_model(bdb, genid, n_model):
\* n_model += 1
DependenceModels(db, genid) == CountModels(db, genid, 1)

\* column_dependence_probability: the models evaluated, their results and
\* the divisor of the sum; or the exception of the first model that raised.
ColumnDependenceProbability(db, ccdep, genid, modelno, colno0, colno1) ==
    LET evaluated == IF modelno = None
                     THEN [i \in 1..DependenceModels(db, genid) |-> i - 1]
                     ELSE <<modelno>>
        p == [i \in 1..Len(evaluated) |->
                 ColumnDependence(db, ccdep, genid, evaluated[i], colno0, colno1)]
    IN  [err |-> FirstError(p), evaluated |-> evaluated, p |-> p,
         divisor |-> IF modelno = None THEN Len(evaluated) ELSE 1]

\* The loop of column_mutual_information over the models, from n_model on.
RECURSIVE MutualInformationLoop(_, _, _, _, _, _, _)
MutualInformationLoop(db, registry, genid, X, W, n_model, acc) ==
    IF acc.err # "none" \/ ~bayesdb_generator_has_model(db, genid, n_model) THEN {acc}
    ELSE UNION {
        MutualInformationLoop(db, registry, genid, X, W, n_model + 1,
            [mem |-> r.mem, err |-> r.err,
             evaluated |-> Append(acc.evaluated, n_model),
             mi |-> Append(acc.mi, r.logps),
             calls |-> acc.calls \o r.calls])
        : r \in ConditionalMutualInformation(db, registry, acc.mem, genid, n_model,
                                             X, W, <<>>, <<>>, n_samples) }

\* column_mutual_information: sum(mi)/n_model over the models, or the
\* estimate of the model named.
ColumnMutualInformation(db, registry, mem, genid, modelno, colno0, colno1) ==
    IF modelno = None
    THEN {[mem |-> r.mem,
           err |-> IF r.err = "none" /\ r.evaluated = <<>> THEN "ZeroDivisionError" ELSE r.err,
           evaluated |-> r.evaluated, mi |-> r.mi, divisor |-> Len(r.evaluated),
           calls |-> r.calls]
          : r \in MutualInformationLoop(db, registry, genid, <<colno0>>, <<colno1>>, 0,
                      [mem |-> mem, err |-> "none", evaluated |-> <<>>, mi |-> <<>>,
                       calls |-> <<>>])}
    ELSE {[mem |-> r.mem, err |-> r.err, evaluated |-> <<modelno>>, mi |-> <<r.logps>>,
           divisor |-> 1, calls |-> r.calls]
          : r \in ConditionalMutualInformation(db, registry, mem, genid, modelno,
                                               <<colno0>>, <<colno1>>, <<>>, <<>>, n_samples)}

\* The loop of column_value_probability over the models, from n_model on.
RECURSIVE ValueProbabilityLoop(_, _, _, _, _, _, _)
ValueProbabilityLoop(db, registry, genid, Q, Y, n_model, acc) ==
    IF acc.err # "none" \/ ~bayesdb_generator_has_model(db, genid, n_model) THEN {acc}
    ELSE UNION {
        ValueProbabilityLoop(db, registry, genid, Q, Y, n_model + 1,
            [mem |-> r.mem, err |-> r.err,
             evaluated |-> Append(acc.evaluated, n_model),
             p |-> Append(acc.p, [inf |-> r.inf, QY_weights |-> r.QY_weights,
                                  Y_weights |-> r.Y_weights]),
             calls |-> acc.calls \o r.calls])
        : r \in JointLogpdf(db, registry, acc.mem, genid, n_model, Q, Y, n_samples) }

\* column_value_probability: exp of -inf when every model gave -inf, of
\* logmeanexp(p) otherwise; or exp of the log density of the model named.
ColumnValueProbability(db, registry, mem, genid, modelno, colno, value, constraints) ==
    LET finish(r) ==
            [mem |-> r.mem, err |-> r.err, evaluated |-> r.evaluated, p |-> r.p,
             aggregate |-> IF modelno # None THEN "single"
                           ELSE IF \A i \in 1..Len(r.p) : r.p[i].inf THEN "-inf"
                           ELSE "logmeanexp",
             calls |-> r.calls]
        start == [mem |-> mem, err |-> "none", evaluated |-> <<>>, p |-> <<>>, calls |-> <<>>]
    IN  IF modelno = None
        THEN {finish(r) : r \in ValueProbabilityLoop(db, registry, genid,
                                   << <<colno, value>> >>, constraints, 0, start)}
        ELSE {finish([mem |-> r.mem, err |-> r.err, evaluated |-> <<modelno>>,
                      p |-> <<[inf |-> r.inf, QY_weights |-> r.QY_weights,
                               Y_weights |-> r.Y_weights]>>,
                      calls |-> r.calls])
              : r \in JointLogpdf(db, registry, mem, genid, modelno,
                                  << <<colno, value>> >>, constraints, n_samples)}

(***************************************************************************)
(* predict_confidence(bdb, genid, modelno, colno, rowid, numsamples)       *)
(*                                                                         *)
(* The row of the table is a function from the column numbers that hold a  *)
(* value to the value; a column it lacks holds None.  An imputed value and *)
(* a confidence are fractions, the pair <<n, d>> standing for n/d.         *)
(***************************************************************************)
Fraction(n) == <<n, 1>>

Times(a, b) == <<a[1] * b[1], a[2] * b[2]>>

\* A combination of the parents' confidences by multiplication: not the
\* code's.
ProductOf(a, b) == <<a[1] * b[1], a[2] * b[2]>>

\* min(parent_conf, imp_conf)
MinOf(a, b) == IF b[1] * a[2] < a[1] * b[2] THEN b ELSE a

\* sum(np.array(samples) == imp_val) / len(samples): both operands are
\* integers, so the quotient is the integer below the fraction.
MatchesOverLength(samples, imp_val) ==
    Fraction(Cardinality({k \in 1..Len(samples) : samples[k] = imp_val}) \div Len(samples))

\* max(((val, samples.count(val)) for val in set(samples)), key=count)[0]:
\* a most frequent value, the first of them in the order of the set.
Modes(samples) ==
    LET count(v) == Cardinality({k \in 1..Len(samples) : samples[k] = v})
    IN  {v \in Range(samples) : \A u \in Range(samples) : count(u) <= count(v)}

\* np.mean(samples)
RECURSIVE SumNumerators(_)
SumNumerators(samples) ==
    IF samples = <<>> THEN 0 ELSE samples[1][1] + SumNumerators(Tail(samples))

Mean(samples) == <<SumNumerators(samples), Len(samples)>>

\* predictor.simulate(numsamples, conditions)
PredictorSamples(instance, conditions, numsamples) ==
    [k \in 1..numsamples |->
        Fraction((instance.binary + k
                  + SumOver([c \in DOMAIN conditions |-> conditions[c][1] + conditions[c][2]],
                            DOMAIN conditions)) % 2)]

\* np.exp(predictor.logpdf(imp_val, conditions)) of a foreign column,
\* su.continuous_imputation_confidence(samples, ...) and the confidence of
\* crosscat's predict_confidence: a probability that differs from column to
\* column.
PredictorConfidence(colno) == <<1, colno + 1>>

ContinuousConfidence(colno) == <<1, colno + 2>>

CcPredictConfidence(ccid, modelno, cc_col) ==
    [val |-> Fraction((cc_col + modelno) % 2), conf |-> <<2, cc_col + 2>>]

RECURSIVE PredictConfidence(_, _, _, _, _, _, _, _, _)
RECURSIVE ImputeParents(_, _, _, _, _, _, _, _, _, _, _)

\* The loop `for colname, val in conditions.iteritems()` over the parents
\* that hold None, in one of the orders of the dict, from the i-th on.
ImputeParents(db, registry, genid, modelno, row, stattypes, numsamples, colno, missing, i, acc) ==
    IF acc.err # "none" \/ i > Len(missing) THEN {acc}
    ELSE UNION {
        ImputeParents(db, registry, genid, modelno, row, stattypes, numsamples, colno,
            missing, i + 1,
            IF r.err # "none"
            THEN [acc EXCEPT !.mem = r.mem, !.err = r.err, !.calls = acc.calls \o r.calls]
            ELSE [mem |-> r.mem, err |-> "none",
                  conditions |-> Put(acc.conditions, missing[i], r.val),
                  parent_conf |-> MinOf(acc.parent_conf, r.conf),
                  imputed |-> Append(acc.imputed, [colno |-> missing[i], conf |-> r.conf]),
                  calls |-> acc.calls \o r.calls])
        : r \in PredictConfidence(db, registry, acc.mem, genid, modelno, missing[i], row,
                                  stattypes, numsamples) }

\* predict_confidence for a row that was found: the outcomes it can have.
PredictConfidence(db, registry, mem, genid, modelno, colno, row, stattypes, numsamples) ==
    LET fail(m, e, calls) ==
            [mem |-> m, err |-> e, val |-> Fraction(0), conf |-> Fraction(0),
             own |-> Fraction(0), parent_conf |-> Fraction(1), imputed |-> <<>>,
             samples |-> <<>>, path |-> "none", calls |-> calls]
        \* the stattype branches, for the samples drawn
        finish(m, path, samples, conditions, parent_conf, imputed, calls) ==
            IF stattypes[colno] = "categorical"
            THEN {LET imp_conf == IF colno \in fcols(db, genid)
                                  THEN PredictorConfidence(colno)
                                  ELSE MatchesOverLength(samples, imp_val)
                  IN  [mem |-> m, err |-> "none", val |-> imp_val,
                       conf |-> Times(imp_conf, parent_conf), own |-> imp_conf,
                       parent_conf |-> parent_conf, imputed |-> imputed,
                       samples |-> samples, path |-> path, calls |-> calls]
                  : imp_val \in Modes(samples)}
            ELSE IF stattypes[colno] = "numerical"
            THEN {[mem |-> m, err |-> "none", val |-> Mean(samples),
                   conf |-> Times(ContinuousConfidence(colno), parent_conf),
                   own |-> ContinuousConfidence(colno),
                   parent_conf |-> parent_conf, imputed |-> imputed,
                   samples |-> samples, path |-> path, calls |-> calls]}
            ELSE {fail(m, "ValueError", calls)}
    IN  IF colno \in lcols(db, genid)
        THEN LET children == {f \in fcols(db, genid) : colno \in pcols(db, genid, f)}
             IN  IF \A f \in children : f \notin DOMAIN row
                 THEN \* self.cc(bdb, genid).predict_confidence(...)
                      LET translated == cc_colnos(db, genid, <<colno>>)
                      IN  IF CcRows(db, genid) = {} THEN {fail(mem, "IndexError", <<>>)}
                          ELSE IF translated.err # "none" THEN {fail(mem, translated.err, <<>>)}
                          ELSE LET r == CcPredictConfidence(cc_id(db, genid), modelno,
                                                            translated.val[1])
                               IN  {[mem |-> mem, err |-> "none", val |-> r.val,
                                     conf |-> r.conf, own |-> r.conf,
                                     parent_conf |-> Fraction(1), imputed |-> <<>>,
                                     samples |-> <<>>, path |-> "crosscat",
                                     calls |-> << [fn |-> "predict_confidence",
                                                   genid |-> cc_id(db, genid),
                                                   modelno |-> modelno,
                                                   colno |-> translated.val[1]] >>]}
                 ELSE \* self.simulate(bdb, genid, modelno, Y, Q, numsamples)
                      LET others == Ascending((DOMAIN row) \ {colno})
                          Y == [j \in 1..Len(others) |-> <<others[j], row[others[j]]>>]
                      IN  UNION {
                          IF s.err # "none" THEN {fail(s.mem, s.err, s.calls)}
                          ELSE finish(s.mem, "simulate",
                                      [k \in 1..Len(s.rows) |-> Fraction(s.rows[k][1])],
                                      <<>>, Fraction(1), <<>>, s.calls)
                          : s \in Simulate(db, registry, mem, genid, modelno, Y, <<colno>>,
                                           numsamples) }
        ELSE LET parents == pcols(db, genid, colno)
                 known == [c \in parents \cap DOMAIN row |-> Fraction(row[c])]
             IN  UNION { UNION {
                     IF p.err # "none" THEN {fail(p.mem, p.err, p.calls)}
                     ELSE UNION {
                         IF l.result \notin {"cached", "deserialized"}
                         THEN {fail(l.mem, l.result, p.calls)}
                         ELSE finish(l.mem, "predictor",
                                     PredictorSamples(l.mem.cache[<<genid, colno>>],
                                                      p.conditions, numsamples),
                                     p.conditions, p.parent_conf, p.imputed,
                                     Append(p.calls,
                                            [fn |-> "predictor.simulate", colno |-> colno,
                                             conditions |-> p.conditions]))
                         : l \in Lookup(db, registry, p.mem, genid, colno) }
                     : p \in ImputeParents(db, registry, genid, modelno, row, stattypes,
                                numsamples, colno, missing, 1,
                                [mem |-> mem, err |-> "none", conditions |-> known,
                                 parent_conf |-> Fraction(1), imputed |-> <<>>,
                                 calls |-> <<>>]) }
                 : missing \in Orders(parents \ DOMAIN row) }

(***************************************************************************)
(* The calls of a Composer on a database.                                  *)
(***************************************************************************)
\* The ids generators can have.
Ids == 1..MaxIds

Columns == 1..Len(TableColumns)

\* The id INSERT INTO bayesdb_generator gives the next generator.
NextId(db) ==
    IF db.generator = {} THEN 1
    ELSE (CHOOSE m \in db.generator : \A q \in db.generator : q <= m) + 1

\* The tables two databases differ in.
Written(before, after) == {t \in DOMAIN before : before[t] # after[t]}

\* The arguments initialize_models is called with.
ModelNos == {<<0>>, <<0, 1>>}

NoOutcome == [op |-> "none"]

\* A function without the key k.
Evict1(f, k) == [x \in DOMAIN f \ {k} |-> f[x]]

\* Composer(): a new Composer object on the database, with no builder
\* registered and nothing cached.
CallInit ==
    /\ predictor_builder' = <<>>
    /\ predictor_cache' = <<>>
    /\ deserialize_log' = <<>>
    /\ outcome' = [op |-> "init"]
    /\ UNCHANGED <<bdb, dropped, topoVars, parseVars, demoVars>>

\* composer.register_foreign_predictor(builder)
CallRegister ==
    /\ \E builder \in Builders :
        LET r == RegisterForeignPredictor(predictor_builder, builder)
        IN  /\ predictor_builder' = r.registry
            /\ outcome' = [op |-> "register", builder |-> builder, result |-> r.result,
                           held |-> CaseFold(builder.name) \in DOMAIN predictor_builder]
    /\ UNCHANGED <<bdb, predictor_cache, deserialize_log, dropped, topoVars, parseVars, demoVars>>

\* CREATE GENERATOR ... USING composer(...)
CallCreateGenerator ==
    /\ NextId(bdb) + 1 <= MaxIds
    /\ \E sch \in LifeSchemas :
       \E r \in CreateGenerator(bdb, predictor_builder, sch, NextId(bdb), NextId(bdb) + 1) :
        /\ bdb' = r.bdb
        /\ outcome' = [op |-> "create", genid |-> NextId(bdb), result |-> r.result,
                       written |-> Written(bdb, r.bdb)]
        /\ dropped' = IF r.result = "ok" THEN Evict1(dropped, NextId(bdb)) ELSE dropped
    /\ UNCHANGED <<predictor_builder, predictor_cache, deserialize_log, topoVars, parseVars, demoVars>>

\* DROP GENERATOR: the metamodel drops its part, then bayesdb its rows.
CallDropGenerator ==
    /\ \E genid \in Ids :
        LET r == DropGenerator(bdb, predictor_cache, genid)
        IN  /\ bdb' = IF r.result = "ok" THEN DropGeneratorRows(r.bdb, genid) ELSE r.bdb
            /\ predictor_cache' = r.cache
            /\ deserialize_log' = Evict(deserialize_log, genid)
            /\ dropped' = IF r.result = "ok"
                           THEN Put(dropped, genid,
                                    {k \in DOMAIN predictor_cache : k[1] = genid})
                           ELSE dropped
            /\ outcome' = [op |-> "drop", genid |-> genid, result |-> r.result]
    /\ UNCHANGED <<predictor_builder, topoVars, parseVars, demoVars>>

\* INITIALIZE MODELS
CallInitializeModels ==
    /\ \E genid \in Ids, modelnos \in ModelNos \cup {<<1>>} :
       \* INITIALIZE 2 MODELS IF NOT EXISTS on a generator that has model 0
       /\ modelnos = <<1>> => bayesdb_generator_has_model(bdb, genid, 0)
       /\ \E r \in InitializeModels(bdb, predictor_builder, genid, modelnos) :
        /\ bdb' = IF r.result = "ok" THEN InitializeModelsRows(r.bdb, genid, modelnos)
                   ELSE r.bdb
        /\ outcome' = [op |-> "initialize", genid |-> genid, modelnos |-> modelnos,
                       result |-> r.result, written |-> Written(bdb, r.bdb),
                       creates |-> r.creates]
    /\ UNCHANGED <<predictor_builder, predictor_cache, deserialize_log, dropped,
                   topoVars, parseVars, demoVars>>

\* A query's self.predictor(bdb, genid, fcol)
CallPredictor ==
    /\ \E genid \in Ids, fcol \in Columns :
        /\ \/ CacheHit(predictor_cache, <<genid, fcol>>)
           \/ Len(LogOf(deserialize_log, <<genid, fcol>>)) < MaxCalls
        /\ \E r \in Lookup(bdb, predictor_builder, NoMem(predictor_cache, deserialize_log),
                           genid, fcol) :
            /\ predictor_cache' = r.mem.cache
            /\ deserialize_log' = r.mem.log
            /\ outcome' = [op |-> "predictor", genid |-> genid, fcol |-> fcol,
                           result |-> r.result]
    /\ UNCHANGED <<predictor_builder, bdb, dropped, topoVars, parseVars, demoVars>>

\* The models drop_models and analyze_models are asked for: the first, or all
\* of them.
ModelChoices == {<<0>>, Unspecified}

\* self.drop_models(bdb, genid, modelnos)
CallDropModels ==
    /\ \E genid \in Ids, modelnos \in ModelChoices :
        LET r == DropModels(bdb, predictor_cache, genid, modelnos)
        IN  /\ bdb' = r.bdb
            /\ predictor_cache' = r.cache
            /\ outcome' = [op |-> "drop_models", genid |-> genid, modelnos |-> modelnos,
                           result |-> r.result,
                           written |-> Written(bdb, r.bdb),
                           evicted |-> DOMAIN predictor_cache \ DOMAIN r.cache]
    /\ UNCHANGED <<predictor_builder, deserialize_log, dropped, topoVars, parseVars, demoVars>>

\* self.analyze_models(bdb, genid, modelnos, iterations)
CallAnalyzeModels ==
    /\ \E genid \in Ids, modelnos \in ModelChoices, iterations \in 1..MaxIterations :
        \E r \in AnalyzeModels(bdb, genid, modelnos, iterations) :
            /\ \A row \in r.bdb.generator_model : row[3] <= MaxIterations
            /\ bdb' = r.bdb
            /\ outcome' = [op |-> "analyze", genid |-> genid, modelnos |-> modelnos,
                           iterations |-> iterations, result |-> r.result,
                           written |-> Written(bdb, r.bdb), calls |-> r.calls,
                           before |-> bdb.generator_model]
    /\ UNCHANGED <<predictor_builder, predictor_cache, deserialize_log, dropped,
                   topoVars, parseVars, demoVars>>

LifeNext ==
    \/ CallInit
    \/ CallRegister
    \/ CallCreateGenerator
    \/ CallDropGenerator
    \/ CallInitializeModels
    \/ CallDropModels
    \/ CallAnalyzeModels
    \/ CallPredictor

\* The databases simulate is called on: a composite model of each schema,
\* before and after its models were initialized.
MixedSchema ==
    << BaseBlock("default", << <<"x", "numerical">>, <<"y", "categorical">> >>, TRUE),
       ForeignBlock("rf", "z", "numerical", <<"x", "y">>, TRUE) >>

\* A local column that is no parent of the foreign column.
SideSchema ==
    << BaseBlock("default", << <<"x", "numerical">>, <<"y", "categorical">> >>, TRUE),
       ForeignBlock("rf", "z", "numerical", <<"x">>, FALSE) >>

\* Two foreign columns of the same parent, neither a parent of the other.
ForkSchema ==
    << BaseBlock("default", << <<"x", "numerical">> >>, FALSE),
       ForeignBlock("rf", "y", "numerical", <<"x">>, FALSE),
       ForeignBlock("rf", "z", "categorical", <<"x">>, FALSE) >>

SimSchemas == {ChainSchema, MixedSchema, SideSchema, LocalSchema, ForkSchema}

SimRegistry == [n \in {"rf"} |-> RfBuilder]

SimCreated ==
    {r.bdb : r \in {c \in UNION {CreateGenerator(EmptyBdb, SimRegistry, sch, 1, 2)
                                 : sch \in SimSchemas} : c.result = "ok"}}

SimDatabases ==
    SimCreated \cup
    {InitializeModelsRows(r.bdb, 1, <<0, 1>>)
     : r \in {i \in UNION {InitializeModels(db, SimRegistry, 1, <<0, 1>>)
                           : db \in SimCreated} : i.result = "ok"}}

\* The caches a Composer can hold for a database: empty, or filled by earlier
\* lookups of the foreign columns.
RECURSIVE Warm(_, _, _, _)
Warm(db, mem, order, i) ==
    IF i > Len(order) THEN {mem}
    ELSE UNION {Warm(db, r.mem, order, i + 1)
                : r \in {l \in Lookup(db, SimRegistry, mem, 1, order[i])
                         : l.result = "deserialized"}}

SimMems(db) == {NoMem(<<>>, <<>>)} \cup Warm(db, NoMem(<<>>, <<>>), topo(db, 1), 1)

\* The queries: evidence of at most one column, at most two targets.
ConstraintLists == {<<>>} \cup {<< <<c, v>> >> : c \in Columns, v \in Values}

TargetLists == {<<>>} \cup [1..1 -> Columns] \cup [1..2 -> Columns]

\* SIMULATE
CallSimulate ==
    /\ outcome = NoOutcome
    /\ \E genid \in {1, 3}, modelno \in {0, 1}, constraints \in ConstraintLists,
          colnos \in TargetLists, numpredictions \in 1..MaxPredictions :
        /\ \A f \in Columns :
            \/ CacheHit(predictor_cache, <<genid, f>>)
            \/ Len(LogOf(deserialize_log, <<genid, f>>)) < MaxCalls
        /\ \E r \in Simulate(bdb, predictor_builder, NoMem(predictor_cache, deserialize_log),
                             genid, modelno, constraints, colnos, numpredictions) :
            /\ predictor_cache' = r.mem.cache
            /\ deserialize_log' = r.mem.log
            /\ outcome' = [op |-> "simulate", genid |-> genid, modelno |-> modelno,
                           constraints |-> constraints, colnos |-> colnos,
                           numpredictions |-> numpredictions, err |-> r.err,
                           rows |-> r.rows, calls |-> r.calls, pools |-> r.pools,
                           lookups |-> r.mem.lookups]
    /\ UNCHANGED <<predictor_builder, bdb, dropped, topoVars, parseVars, demoVars>>

\* The pins of a query or of evidence: at most two.
PinLists ==
    {<<>>} \cup {<<p>> : p \in Columns \X Values}
           \cup {<<p, q>> : p \in Columns \X Values, q \in Columns \X Values}

\* self._joint_logpdf(bdb, genid, modelno, Q, Y)
CallJointLogpdf ==
    /\ outcome = NoOutcome
    /\ \E genid \in {1, 3}, modelno \in {0, 1}, Q \in PinLists, Y \in PinLists :
        /\ \A f \in Columns :
            \/ CacheHit(predictor_cache, <<genid, f>>)
            \/ Len(LogOf(deserialize_log, <<genid, f>>)) < MaxCalls
        /\ \E r \in JointLogpdf(bdb, predictor_builder,
                                NoMem(predictor_cache, deserialize_log),
                                genid, modelno, Q, Y, n_samples) :
            /\ predictor_cache' = r.mem.cache
            /\ deserialize_log' = r.mem.log
            /\ outcome' = [op |-> "joint_logpdf", genid |-> genid, modelno |-> modelno,
                           Q |-> Q, Y |-> Y, err |-> r.err, inf |-> r.inf,
                           QY_weights |-> r.QY_weights, Y_weights |-> r.Y_weights,
                           evidence |-> r.evidence, calls |-> r.calls,
                           lookups |-> r.mem.lookups]
    /\ UNCHANGED <<predictor_builder, bdb, dropped, topoVars, parseVars, demoVars>>

\* What crosscat can answer for the dependence of the local columns in one
\* model: 0 or 1 for every ordered pair.
CcDependences == [Columns \X Columns -> {0, 1}]

\* self._column_dependence_probability(bdb, genid, modelno, colno0, colno1)
CallColumnDependence ==
    /\ outcome = NoOutcome
    /\ \E genid \in {1, 3}, modelno \in {0, 1}, colno0 \in Columns, colno1 \in Columns,
          ccdep \in CcDependences :
        /\ \A p \in Columns \X Columns :
              (p[1] \notin lcols(bdb, 1) \/ p[2] \notin lcols(bdb, 1)) => ccdep[p] = 0
        /\ LET r == ColumnDependence(bdb, ccdep, genid, modelno, colno0, colno1)
           IN  outcome' = [op |-> "dependence", genid |-> genid, modelno |-> modelno,
                           colno0 |-> colno0, colno1 |-> colno1, ccdep |-> ccdep,
                           err |-> r.err, val |-> r.val]
    /\ UNCHANGED <<predictor_builder, predictor_cache, deserialize_log, bdb, dropped,
                   topoVars, parseVars, demoVars>>

\* Lists of at most one column.
ShortLists == {<<>>} \cup [1..1 -> Columns]

\* self.conditional_mutual_information(bdb, genid, modelno, X, W, Z, Y,
\* numsamples=1)
CallConditionalMutualInformation ==
    /\ outcome = NoOutcome
    /\ \E genid \in {1, 3}, X \in TargetLists, W \in ShortLists, Z \in ShortLists,
          Y \in ConstraintLists :
        \* Two columns in X are asked with nothing else.
        /\ Len(X) = 2 => (W = <<>> /\ Z = <<>> /\ Y = <<>>)
        /\ \A f \in Columns :
            \/ CacheHit(predictor_cache, <<genid, f>>)
            \/ Len(LogOf(deserialize_log, <<genid, f>>)) < MaxCalls
        /\ \E r \in ConditionalMutualInformation(bdb, predictor_builder,
                        NoMem(predictor_cache, deserialize_log),
                        genid, 0, X, W, Z, Y, 1) :
            /\ predictor_cache' = r.mem.cache
            /\ deserialize_log' = r.mem.log
            /\ outcome' = [op |-> "cmi", genid |-> genid, X |-> X, W |-> W, Z |-> Z, Y |-> Y,
                           err |-> r.err, draws |-> r.draws, queries |-> r.queries,
                           logps |-> r.logps, calls |-> r.calls, lookups |-> r.mem.lookups]
    /\ UNCHANGED <<predictor_builder, bdb, dropped, topoVars, parseVars, demoVars>>

\* self.row_similarity(bdb, genid, modelno, rowid, target_rowid, colnos)
CallRowSimilarity ==
    /\ outcome = NoOutcome
    /\ \E genid \in {1, 3}, modelno \in {0, 1}, rowid \in {1, 2}, target_rowid \in {1, 2},
          colnos \in TargetLists :
        LET r == RowSimilarity(bdb, genid, modelno, rowid, target_rowid, colnos)
        IN  outcome' = [op |-> "row_similarity", genid |-> genid, modelno |-> modelno,
                        rowid |-> rowid, target_rowid |-> target_rowid, colnos |-> colnos,
                        err |-> r.err, calls |-> r.calls]
    /\ UNCHANGED <<predictor_builder, predictor_cache, deserialize_log, bdb, dropped,
                   topoVars, parseVars, demoVars>>

\* The model a query names: None for all of them.
ModelSelectors == {None, 0}

\* self.column_dependence_probability(bdb, genid, modelno, colno0, colno1)
CallColumnDependenceProbability ==
    /\ outcome = NoOutcome
    /\ \E genid \in {1, 3}, modelno \in ModelSelectors, colno0 \in Columns, colno1 \in Columns,
          ccdep \in CcDependences :
        /\ \A p \in Columns \X Columns :
              (p[1] \notin lcols(bdb, 1) \/ p[2] \notin lcols(bdb, 1)) => ccdep[p] = 0
        /\ LET r == ColumnDependenceProbability(bdb, ccdep, genid, modelno, colno0, colno1)
           IN  outcome' = [op |-> "column_dependence_probability", genid |-> genid,
                           modelno |-> modelno, colno0 |-> colno0, colno1 |-> colno1,
                           err |-> r.err, evaluated |-> r.evaluated, p |-> r.p,
                           divisor |-> r.divisor]
    /\ UNCHANGED <<predictor_builder, predictor_cache, deserialize_log, bdb, dropped,
                   topoVars, parseVars, demoVars>>

\* self.column_mutual_information(bdb, genid, modelno, colno0, colno1)
CallColumnMutualInformation ==
    /\ outcome = NoOutcome
    /\ \E genid \in {1, 3}, modelno \in ModelSelectors, colno0 \in Columns, colno1 \in Columns :
        \* Every pair is asked in one order.
        /\ colno0 <= colno1
        /\ \A f \in Columns :
            \/ CacheHit(predictor_cache, <<genid, f>>)
            \/ Len(LogOf(deserialize_log, <<genid, f>>)) < MaxCalls
        /\ \E r \in ColumnMutualInformation(bdb, predictor_builder,
                        NoMem(predictor_cache, deserialize_log), genid, modelno,
                        colno0, colno1) :
            /\ predictor_cache' = r.mem.cache
            /\ deserialize_log' = r.mem.log
            /\ outcome' = [op |-> "column_mutual_information", genid |-> genid,
                           modelno |-> modelno, colno0 |-> colno0, colno1 |-> colno1,
                           err |-> r.err, evaluated |-> r.evaluated, mi |-> r.mi,
                           divisor |-> r.divisor, calls |-> r.calls]
    /\ UNCHANGED <<predictor_builder, bdb, dropped, topoVars, parseVars, demoVars>>

\* self.column_value_probability(bdb, genid, modelno, colno, value, constraints)
CallColumnValueProbability ==
    /\ outcome = NoOutcome
    /\ \E genid \in {1, 3}, modelno \in ModelSelectors, colno \in Columns, value \in Values,
          constraints \in ConstraintLists :
        /\ \A f \in Columns :
            \/ CacheHit(predictor_cache, <<genid, f>>)
            \/ Len(LogOf(deserialize_log, <<genid, f>>)) < MaxCalls
        /\ \E r \in ColumnValueProbability(bdb, predictor_builder,
                        NoMem(predictor_cache, deserialize_log), genid, modelno,
                        colno, value, constraints) :
            /\ predictor_cache' = r.mem.cache
            /\ deserialize_log' = r.mem.log
            /\ outcome' = [op |-> "column_value_probability", genid |-> genid,
                           modelno |-> modelno, colno |-> colno, value |-> value,
                           constraints |-> constraints, err |-> r.err,
                           evaluated |-> r.evaluated, p |-> r.p,
                           aggregate |-> r.aggregate, calls |-> r.calls]
    /\ UNCHANGED <<predictor_builder, bdb, dropped, topoVars, parseVars, demoVars>>

\* The rows of the table: every column holds a value or None.
Rows == UNION {[present -> Values] : present \in SUBSET Columns}

\* The statistical types bayesdb records for the columns.
StatTypes == [Columns -> {"categorical", "numerical"}]

\* self.predict_confidence(bdb, genid, modelno, colno, rowid); found tells
\* whether the table has the row.
CallPredictConfidence ==
    /\ outcome = NoOutcome
    /\ \E genid \in {1}, modelno \in {0}, colno \in Columns, row \in Rows,
          stattypes \in StatTypes, found \in BOOLEAN :
        /\ \A f \in Columns :
            \/ CacheHit(predictor_cache, <<genid, f>>)
            \/ Len(LogOf(deserialize_log, <<genid, f>>)) < MaxCalls
        /\ \E r \in IF found
                    THEN PredictConfidence(bdb, predictor_builder,
                             NoMem(predictor_cache, deserialize_log), genid, modelno,
                             colno, row, stattypes, n_samples)
                    ELSE {[mem |-> NoMem(predictor_cache, deserialize_log),
                           err |-> "BQLError", val |-> Fraction(0), conf |-> Fraction(0),
                           own |-> Fraction(0), parent_conf |-> Fraction(1),
                           imputed |-> <<>>, samples |-> <<>>, path |-> "none",
                           calls |-> <<>>]} :
            /\ predictor_cache' = r.mem.cache
            /\ deserialize_log' = r.mem.log
            /\ outcome' = [op |-> "predict_confidence", genid |-> genid,
                           modelno |-> modelno, colno |-> colno, row |-> row,
                           stattypes |-> stattypes, found |-> found, err |-> r.err,
                           val |-> r.val, conf |-> r.conf, own |-> r.own,
                           parent_conf |-> r.parent_conf, imputed |-> r.imputed,
                           samples |-> r.samples, path |-> r.path, calls |-> r.calls]
    /\ UNCHANGED <<predictor_builder, bdb, dropped, topoVars, parseVars, demoVars>>

SimNext ==
    \/ CallSimulate
    \/ CallJointLogpdf
    \/ CallColumnDependence
    \/ CallConditionalMutualInformation
    \/ CallRowSimilarity
    \/ CallColumnDependenceProbability
    \/ CallColumnMutualInformation
    \/ CallColumnValueProbability
    \/ CallPredictConfidence

(***************************************************************************)
(* demo/main.py: main()                                                    *)
(***************************************************************************)
\* The demo command is not running.
NoDemo == [pc |-> "none"]

\* sys.argv[1:] as getopt splits it: at most one option, then the arguments.
\* "-x" is an option getopt does not know.
DemoOptions == {<<>>, <<"-h">>, <<"-v">>, <<"-u">>, <<"-x">>}

DemoArguments ==
    {<<>>, <<"help">>, <<"version">>, <<"fetch">>, <<"launch">>, <<"fetch", "again">>,
     <<"launch", "again">>, <<"run">>}

\* What one call of download_demo does: it returns, or raises an Exception.
DownloadOutcomes == {"returned", "Fail", "ConnectionError"}

\* sys.exit(status)
DemoExit(d, status, at) == [d EXCEPT !.pc = "exited", !.status = status, !.at = at]

\* main(), from its first line to the end of the selection of the command:
\* the options, then fetch_p and launch_p from the first argument.
DemoSelect ==
    /\ demo.pc = "main"
    /\ demo' =
        IF demo.opts = <<"-x">> THEN DemoExit(demo, 2, "options")
        ELSE IF demo.opts \in {<<"-v">>, <<"-h">>} THEN DemoExit(demo, 0, "options")
        ELSE IF demo.args = <<>>
        THEN [demo EXCEPT !.pc = "fetch", !.fetch_p = TRUE, !.launch_p = TRUE]
        ELSE IF demo.args[1] \in {"help", "version"} THEN DemoExit(demo, 0, "command")
        ELSE IF demo.args[1] = "fetch" THEN [demo EXCEPT !.pc = "fetch", !.fetch_p = TRUE]
        ELSE IF demo.args[1] = "launch" THEN [demo EXCEPT !.pc = "fetch", !.launch_p = TRUE]
        ELSE DemoExit(demo, 2, "command")
    /\ UNCHANGED <<topoVars, parseVars, lifeVars>>

\* if fetch_p: the directory must be empty; nretry = 3; last_error = None
DemoFetch ==
    /\ demo.pc = "fetch"
    /\ demo' =
        IF ~demo.fetch_p THEN [demo EXCEPT !.pc = "launch"]
        ELSE IF ~demo.empty_dir THEN DemoExit(demo, 2, "fetch")
        ELSE [demo EXCEPT !.pc = "while", !.nretry = 3, !.last_error = "None"]
    /\ UNCHANGED <<topoVars, parseVars, lifeVars>>

\* One iteration of `while 0 < nretry`: download_demo returns (break), or
\* raises e (last_error = e; nretry -= 1).
DemoDownload ==
    /\ demo.pc = "while"
    /\ 0 < demo.nretry
    /\ \E o \in DownloadOutcomes :
        demo' =
            IF o = "returned"
            THEN [demo EXCEPT !.pc = "check", !.downloads = Append(@, o)]
            ELSE [demo EXCEPT !.last_error = o, !.nretry = @ - 1,
                              !.downloads = Append(@, o)]
    /\ UNCHANGED <<topoVars, parseVars, lifeVars>>

\* The test of the while loop fails.
DemoWhileEnd ==
    /\ demo.pc = "while"
    /\ ~(0 < demo.nretry)
    /\ demo' = [demo EXCEPT !.pc = "check"]
    /\ UNCHANGED <<topoVars, parseVars, lifeVars>>

\* if last_error is not None: sys.stderr.write(str(last_error)); sys.exit(1)
DemoCheck ==
    /\ demo.pc = "check"
    /\ demo' = IF demo.last_error # "None" THEN DemoExit(demo, 1, "fetch")
               ELSE [demo EXCEPT !.pc = "launch"]
    /\ UNCHANGED <<topoVars, parseVars, lifeVars>>

\* if launch_p: os.execlp replaces the process, or raises and main exits
\* with 1; without launch_p main returns.
DemoLaunch ==
    /\ demo.pc = "launch"
    /\ \E raised \in BOOLEAN :
        demo' = IF ~demo.launch_p THEN [demo EXCEPT !.pc = "returned", !.status = 0]
                ELSE IF raised THEN DemoExit(demo, 1, "launch")
                ELSE [demo EXCEPT !.pc = "ipython", !.at = "launch"]
    /\ UNCHANGED <<topoVars, parseVars, lifeVars>>

DemoNext ==
    \/ DemoSelect
    \/ DemoFetch
    \/ DemoDownload
    \/ DemoWhileEnd
    \/ DemoCheck
    \/ DemoLaunch

(***************************************************************************)
(* Specifications.                                                         *)
(***************************************************************************)
\* graph_sorted = []; graph = dict(graph), for every adjacency map.
TopoInit ==
    /\ demo = NoDemo
    /\ t_input \in TopoGraphs
    /\ graph = DOMAIN t_input
    /\ graph_sorted = <<>>
    /\ items = {}
    /\ acyclic = FALSE
    /\ scans = 0
    /\ t_pc = "while"
    /\ p_abs = <<>>
    /\ schema = <<>>
    /\ p_arg = <<>>
    /\ p_result = [err |-> "none"]
    /\ p_calls = 0
    /\ predictor_builder = <<>>
    /\ predictor_cache = <<>>
    /\ bdb = EmptyBdb
    /\ deserialize_log = <<>>
    /\ dropped = <<>>
    /\ outcome = NoOutcome

\* topological_sort on every adjacency map.
SpecTopo == TopoInit /\ [][TopoNext]_vars

\* A schema, and a Composer with the predictor rf registered.
ParseInit ==
    /\ demo = NoDemo
    /\ p_abs \in AbsSchemas
    /\ schema = RenderSchema(p_abs)
    /\ p_arg = <<>>
    /\ p_result = [err |-> "none"]
    /\ p_calls = 0
    /\ predictor_builder = [n \in {"rf"} |-> RfBuilder]
    /\ predictor_cache = <<>>
    /\ bdb = EmptyBdb
    /\ deserialize_log = <<>>
    /\ dropped = <<>>
    /\ outcome = NoOutcome
    /\ t_input = <<>>
    /\ graph = {}
    /\ graph_sorted = <<>>
    /\ items = {}
    /\ acyclic = FALSE
    /\ scans = 0
    /\ t_pc = "idle"

\* parse on every schema.
SpecParse == ParseInit /\ [][ParseNext]_vars

\* Composer.__init__ on a database without generators.
LifeInit ==
    /\ demo = NoDemo
    /\ predictor_builder = <<>>
    /\ predictor_cache = <<>>
    /\ bdb = EmptyBdb
    /\ deserialize_log = <<>>
    /\ dropped = <<>>
    /\ outcome = NoOutcome
    /\ t_input = <<>>
    /\ graph = {}
    /\ graph_sorted = <<>>
    /\ items = {}
    /\ acyclic = FALSE
    /\ scans = 0
    /\ t_pc = "idle"
    /\ p_abs = <<>>
    /\ schema = <<>>
    /\ p_arg = <<>>
    /\ p_result = [err |-> "none"]
    /\ p_calls = 0

\* Registrations, creations, deletions, initializations and predictor
\* lookups in every order.
Spec == LifeInit /\ [][LifeNext]_vars

\* A Composer with the predictor rf registered, on a database with one
\* composite model, before its first call of simulate.
SimInit ==
    /\ demo = NoDemo
    /\ predictor_builder = SimRegistry
    /\ bdb \in SimDatabases
    /\ \E mem \in SimMems(bdb) :
        /\ predictor_cache = mem.cache
        /\ deserialize_log = mem.log
    /\ dropped = <<>>
    /\ outcome = NoOutcome
    /\ t_input = <<>>
    /\ graph = {}
    /\ graph_sorted = <<>>
    /\ items = {}
    /\ acyclic = FALSE
    /\ scans = 0
    /\ t_pc = "idle"
    /\ p_abs = <<>>
    /\ schema = <<>>
    /\ p_arg = <<>>
    /\ p_result = [err |-> "none"]
    /\ p_calls = 0

\* One query of every kind on every model.
SpecSim == SimInit /\ [][SimNext]_vars

\* The demo command started with every command line, in an empty directory
\* or not.
DemoInit ==
    /\ demo \in [pc : {"main"}, opts : DemoOptions, args : DemoArguments,
                 empty_dir : BOOLEAN, fetch_p : {FALSE}, launch_p : {FALSE},
                 nretry : {0}, last_error : {"None"}, downloads : {<<>>},
                 status : {None}, at : {"main"}]
    /\ predictor_builder = <<>>
    /\ predictor_cache = <<>>
    /\ bdb = EmptyBdb
    /\ deserialize_log = <<>>
    /\ dropped = <<>>
    /\ outcome = NoOutcome
    /\ t_input = <<>>
    /\ graph = {}
    /\ graph_sorted = <<>>
    /\ items = {}
    /\ acyclic = FALSE
    /\ scans = 0
    /\ t_pc = "idle"
    /\ p_abs = <<>>
    /\ schema = <<>>
    /\ p_arg = <<>>
    /\ p_result = [err |-> "none"]
    /\ p_calls = 0

SpecDemo == DemoInit /\ [][DemoNext]_vars

(***************************************************************************)
(* Properties of topological_sort.                                         *)
(***************************************************************************)
\* The predecessors of node n that are keys of the map g.
KeyPreds(g, n) == g[n] \cap DOMAIN g

\* The nodes from which n is reachable in at most k steps along key edges.
RECURSIVE Ancestors(_, _, _)
Ancestors(g, n, k) ==
    IF k = 0 THEN {}
    ELSE LET prev == Ancestors(g, n, k - 1)
         IN  KeyPreds(g, n) \cup prev \cup UNION {KeyPreds(g, m) : m \in prev}

\* The edges of g among its own keys contain a cycle.
HasCycle(g) == \E n \in DOMAIN g : n \in Ancestors(g, n, Cardinality(DOMAIN g))

\* The position of node n in the output, 0 when it is absent.
PositionOf(n) ==
    IF \E i \in 1..Len(graph_sorted) : graph_sorted[i][1] = n
    THEN CHOOSE i \in 1..Len(graph_sorted) : graph_sorted[i][1] = n
    ELSE 0

\* C1: for an acyclic adjacency map topological_sort does not raise, and the
\* sequence it returns holds each key of the map exactly once (with the
\* predecessors the map lists for it) and every node strictly after each of
\* its predecessors that is a key; predecessors that are not keys do not
\* constrain the order.
C1_TopologicalOrder ==
    /\ t_pc = "raised" => HasCycle(t_input)
    /\ (t_pc = "returned" /\ ~HasCycle(t_input)) =>
         /\ Len(graph_sorted) = Cardinality(DOMAIN t_input)
         /\ {graph_sorted[i][1] : i \in 1..Len(graph_sorted)} = DOMAIN t_input
         /\ \A i \in 1..Len(graph_sorted) :
              /\ graph_sorted[i][2] = t_input[graph_sorted[i][1]]
              /\ \A p \in KeyPreds(t_input, graph_sorted[i][1]) :
                   /\ PositionOf(p) > 0
                   /\ PositionOf(p) < i

\* An acyclic map of three keys was sorted: a chain hanging off a local column.
C1_Witness ==
    /\ t_pc = "returned"
    /\ ~HasCycle(t_input)
    /\ Len(graph_sorted) = 3
    /\ \E n \in DOMAIN t_input : LocalNode \in t_input[n]
    /\ \E n \in DOMAIN t_input : Cardinality(KeyPreds(t_input, n)) = 2

\* C2: for a map whose edges among its own keys contain a cycle (a node that
\* lists itself included) topological_sort never returns an order; it begins
\* at most one scan per key, and it keeps running until it has raised.
C2_CycleRaises ==
    /\ t_pc = "returned" => ~HasCycle(t_input)
    /\ \/ /\ scans <= Cardinality(DOMAIN t_input)
          /\ (t_pc = "raised" \/ ENABLED TopoNext)
       \/ ~HasCycle(t_input)

\* A cycle was reported after part of the map had been emitted, and a
\* self-loop was reported.
C2_Witness ==
    /\ t_pc = "raised"
    /\ HasCycle(t_input)
    /\ graph_sorted # <<>>
    /\ \E n \in graph : n \in t_input[n]

(***************************************************************************)
(* Properties of parse, stated on the schema as it is written.             *)
(***************************************************************************)
RECURSIVE Flatten(_)
Flatten(lists) == IF lists = <<>> THEN <<>> ELSE Head(lists) \o Flatten(Tail(lists))

BlocksOf(abs, kind) == SelectSeq(abs, LAMBDA b : b.kind = kind)

\* The (name, stattype) declarations of the blocks of a kind, in order.
DeclsOf(abs, kind) ==
    LET bs == BlocksOf(abs, kind) IN Flatten([i \in 1..Len(bs) |-> bs[i].decls])

NamesOf(decls) == [i \in 1..Len(decls) |-> CaseFold(decls[i][1])]

FoldAll(names) == [i \in 1..Len(names) |-> CaseFold(names[i])]

DeclaredLocal(abs) == NamesOf(DeclsOf(abs, "base"))

DeclaredForeign(abs) == NamesOf(DeclsOf(abs, "fp"))

AllDecls(abs) == DeclsOf(abs, "base") \o DeclsOf(abs, "fp")

\* The violations a schema can hold.
UnknownDirective(abs) ==
    \E i \in 1..Len(abs) :
        /\ abs[i].kind # "empty"
        /\ CaseFold(abs[i].dir) \notin
               {"default", "crosscat", "dependent", "independent", "rf"}

BadStattype(abs) ==
    \E i \in 1..Len(AllDecls(abs)) :
        CaseFold(AllDecls(abs)[i][2]) \notin {"numerical", "categorical"}

LocalTwice(abs) ==
    \E i, j \in 1..Len(DeclaredLocal(abs)) :
        i # j /\ DeclaredLocal(abs)[i] = DeclaredLocal(abs)[j]

ForeignTwice(abs) ==
    \E i, j \in 1..Len(DeclaredForeign(abs)) :
        i # j /\ DeclaredForeign(abs)[i] = DeclaredForeign(abs)[j]

ParentUndeclared(abs) ==
    \E i \in 1..Len(abs) :
        /\ abs[i].kind = "fp"
        /\ \E k \in 1..Len(abs[i].parents) :
               CaseFold(abs[i].parents[k]) \notin Range(NamesOf(AllDecls(abs)))

BothLocalAndForeign(abs) ==
    Range(DeclaredLocal(abs)) \cap Range(DeclaredForeign(abs)) # {}

DependencyNotLocal(abs) ==
    \E i \in 1..Len(abs) :
        /\ abs[i].kind = "dep"
        /\ \E k \in 1..Len(abs[i].parents) :
               CaseFold(abs[i].parents[k]) \notin Range(DeclaredLocal(abs))

Violates(abs) ==
    \/ UnknownDirective(abs)
    \/ BadStattype(abs)
    \/ LocalTwice(abs)
    \/ ForeignTwice(abs)
    \/ ParentUndeclared(abs)
    \/ BothLocalAndForeign(abs)
    \/ DependencyNotLocal(abs)

\* What the schema declares, read off its blocks.
Declared(abs) ==
    LET decls == AllDecls(abs)
        fps == BlocksOf(abs, "fp")
        deps == BlocksOf(abs, "dep")
        fpOf(f) == CHOOSE i \in 1..Len(fps) : CaseFold(fps[i].decls[1][1]) = f
    IN  [columns |-> [c \in Range(NamesOf(decls)) |->
                         CaseFold(decls[CHOOSE i \in 1..Len(decls) :
                                            CaseFold(decls[i][1]) = c][2])],
         lcols |-> DeclaredLocal(abs),
         fcols |-> DeclaredForeign(abs),
         fcol_to_pcols |-> [f \in Range(DeclaredForeign(abs)) |->
                               FoldAll(fps[fpOf(f)].parents)],
         fcol_to_fpred |-> [f \in Range(DeclaredForeign(abs)) |->
                               CaseFold(fps[fpOf(f)].dir)],
         dependencies |-> [i \in 1..Len(deps) |->
                              <<deps[i].dir = "dependent", FoldAll(deps[i].parents)>>],
         err |-> "none"]

\* default(X categorical), rf(Y numerical given X)
ExampleSchema ==
    << BaseBlock("default", << <<"X", "categorical">> >>, FALSE),
       ForeignBlock("rf", "Y", "numerical", <<"X">>, FALSE) >>

\* C3: the first parse of a schema that holds no violation returns the
\* stattype of every declared column, the columns of the base-model blocks as
\* the local list, the targets of the predictor blocks as the foreign list,
\* the GIVEN parents of every foreign column in order, the directive that
\* declared it, and the dependency constraints; names are returned
\* case-folded. For default(X categorical), rf(Y numerical given X) that is
\* columns {x: categorical, y: numerical}, local [x], foreign [y], parents
\* {y: [x]}, predictor {y: rf}.
C3_ParseOutput ==
    (p_calls = 1 /\ ~Violates(p_abs)) =>
        /\ p_result = Declared(p_abs)
        /\ p_abs = ExampleSchema =>
             /\ p_result.columns = [c \in {"x", "y"} |->
                                       IF c = "x" THEN "categorical" ELSE "numerical"]
             /\ p_result.lcols = <<"x">>
             /\ p_result.fcols = <<"y">>
             /\ p_result.fcol_to_pcols = [f \in {"y"} |-> <<"x">>]
             /\ p_result.fcol_to_fpred = [f \in {"y"} |-> "rf"]
             /\ p_result.dependencies = <<>>

\* A schema of a base-model block and two predictor blocks, one of them with
\* two parents, was parsed.
C3_Witness ==
    /\ p_calls = 1
    /\ ~Violates(p_abs)
    /\ p_result.err = "none"
    /\ Len(p_result.fcols) = 2
    /\ \E f \in DOMAIN p_result.fcol_to_pcols : Len(p_result.fcol_to_pcols[f]) = 2

\* C4: the first parse of a schema that holds a violation (unknown directive,
\* unknown stattype, a column local twice, a column foreign twice, a parent
\* without a stattype declaration, a column both local and foreign, a column
\* of a dependency constraint that is not local) raises ValueError and returns
\* nothing.
C4_ParseRejects ==
    (p_calls = 1 /\ Violates(p_abs)) => p_result = [err |-> "ValueError"]

\* A schema whose only violation is a parent without declaration was rejected.
C4_Witness ==
    /\ p_calls = 1
    /\ ParentUndeclared(p_abs)
    /\ ~UnknownDirective(p_abs)
    /\ ~BadStattype(p_abs)
    /\ ~LocalTwice(p_abs)
    /\ ~ForeignTwice(p_abs)
    /\ ~BothLocalAndForeign(p_abs)
    /\ ~DependencyNotLocal(p_abs)
    /\ p_result = [err |-> "ValueError"]

(***************************************************************************)
(* Properties of the registry, the life cycle and the predictor cache.     *)
(***************************************************************************)
\* C5: a registration whose builder's name, identified as the registry
\* stores names (case-folded), is already held fails with the duplicate-name
\* error, so no registered builder is replaced.
C5_DuplicateRejected ==
    (outcome.op = "register" /\ outcome.held) => outcome.result = "ValueError"

\* The five tables of the composer.
ComposerTables ==
    {"cc_id", "column_owner", "column_parents", "column_toposort", "column_foreign_predictor"}

\* C6: once drop_generator succeeded for a composite model, and until a
\* model is created under its id, no row of the five composer tables has the
\* id, no key of the predictor cache has it, and a query of the model that
\* needs a predictor or the base model ends with the not-found IndexError.
C6_DropLeavesNothing ==
    \A g \in DOMAIN dropped :
        /\ \A t \in ComposerTables : \A r \in bdb[t] : r[1] # g
        /\ \A k \in DOMAIN predictor_cache : k[1] # g
        /\ (outcome.op \in {"predictor", "initialize"} /\ outcome.genid = g)
              => outcome.result = "IndexError"

\* A predictor of the dropped model was cached, and the lookup of it after
\* the drop was not served.
C6_Witness ==
    /\ outcome.op = "predictor"
    /\ outcome.genid \in DOMAIN dropped
    /\ <<outcome.genid, outcome.fcol>> \in dropped[outcome.genid]
    /\ outcome.result = "IndexError"

\* C7 as amended: between two evictions of a key, deserialize is invoked
\* only while no lookup of the key has returned: an invocation that returned
\* is the last one, its instance is cached, and what is cached came from it.
C7_DeserializeUntilCached ==
    \A k \in DOMAIN deserialize_log \cup DOMAIN predictor_cache :
        LET log == LogOf(deserialize_log, k)
        IN  /\ \A i \in 1..Len(log) : log[i] = "returned" => i = Len(log)
            /\ k \in DOMAIN predictor_cache <=> (log # <<>> /\ log[Len(log)] = "returned")

\* deserialize raised, a later lookup deserialized, and the lookup after it
\* was served from the cache.
C7_Witness ==
    /\ outcome.op = "predictor"
    /\ outcome.result = "cached"
    /\ LogOf(deserialize_log, <<outcome.genid, outcome.fcol>>) = <<"raised", "returned">>

\* C7 as stated: between two evictions of a key deserialize is invoked at
\* most once.
C7_DeserializeOnce ==
    \A k \in DOMAIN deserialize_log : Len(deserialize_log[k]) <= 1

\* C8: a create_generator that fails with a schema error, a cyclic
\* dependency or a self parent has written nothing to the database.
C8_FailedCreateWritesNothing ==
    (outcome.op = "create" /\ outcome.result # "ok") => outcome.written = {}

\* C9: an initialize_models that fails has written nothing to the database:
\* no model of the base generator, no predictor bytes.
C9_FailedInitializeWritesNothing ==
    (outcome.op = "initialize" /\ outcome.result # "ok") => outcome.written = {}

\* The number, in the base model, of the column with the name column colno
\* has in the composite model.
BaseColumn(colno) == ColumnNumber(TableColumns[colno])

\* No column of the last query, evidence or target, is foreign.
QueryIsLocal ==
    \A f \in fcols(bdb, outcome.genid) :
        /\ \A j \in 1..Len(outcome.constraints) : outcome.constraints[j][1] # f
        /\ \A j \in 1..Len(outcome.colnos) : outcome.colnos[j] # f

\* C10: a simulate none of whose columns is foreign calls no predictor; when
\* it returns it has made one call of the base model, simulate of the linked
\* generator with the same model number, the evidence values and the targets
\* in the order given under the base model's numbers and the same n, and
\* returns the rows of that call; when it raises it has made no call.
C10_FastPathDelegates ==
    (outcome.op = "simulate" /\ QueryIsLocal) =>
        /\ outcome.lookups = 0
        /\ outcome.err # "none" => outcome.calls = <<>>
        /\ outcome.err = "none" =>
            /\ outcome.calls =
                  << [fn |-> "simulate",
                      genid |-> cc_id(bdb, outcome.genid),
                      modelno |-> outcome.modelno,
                      Y |-> [j \in 1..Len(outcome.constraints) |->
                                <<BaseColumn(outcome.constraints[j][1]),
                                  outcome.constraints[j][2]>>],
                      Q |-> [j \in 1..Len(outcome.colnos) |-> BaseColumn(outcome.colnos[j])],
                      n |-> outcome.numpredictions] >>
            /\ outcome.rows = CcSimulate(outcome.calls[1])

\* A model with a foreign column answered a query of two different local
\* targets under evidence, for more than one row.
C10_Witness ==
    /\ outcome.op = "simulate"
    /\ QueryIsLocal
    /\ outcome.err = "none"
    /\ fcols(bdb, outcome.genid) # {}
    /\ Len(outcome.colnos) = 2
    /\ outcome.colnos[1] # outcome.colnos[2]
    /\ outcome.constraints # <<>>
    /\ outcome.numpredictions > 1
    /\ Len(outcome.rows) = outcome.numpredictions

(***************************************************************************)
(* Properties of the queries.                                              *)
(***************************************************************************)
\* Some column is pinned by Q and by Y of the last query to different values.
PinsDisagree ==
    \E i \in 1..Len(outcome.Q), j \in 1..Len(outcome.Y) :
        /\ outcome.Q[i][1] = outcome.Y[j][1]
        /\ outcome.Q[i][2] # outcome.Y[j][2]

\* C11: a joint log-density whose query and evidence pin some column to
\* different values returns minus infinity: it raises nothing, hands nothing
\* to the sampler, looks no predictor up and calls the base model not once.
C11_ContradictionIsMinusInfinity ==
    (outcome.op = "joint_logpdf" /\ PinsDisagree) =>
        /\ outcome.err = "none"
        /\ outcome.inf
        /\ outcome.evidence = <<>>
        /\ outcome.calls = <<>>
        /\ outcome.lookups = 0

\* The second pin of the query contradicts the evidence, its first pin
\* agrees with it, on a model with foreign columns.
C11_Witness ==
    /\ outcome.op = "joint_logpdf"
    /\ Len(outcome.Q) = 2
    /\ outcome.Q[1] \in Range(outcome.Y)
    /\ \E j \in 1..Len(outcome.Y) :
        outcome.Q[2][1] = outcome.Y[j][1] /\ outcome.Q[2][2] # outcome.Y[j][2]
    /\ outcome.Q[2][1] \in fcols(bdb, outcome.genid)
    /\ outcome.inf

\* C12: a joint log-density whose query is not empty and has each of its pins
\* among the pins of the evidence hands the sampler no column of the query
\* that the evidence pins too (so both samples are taken under the evidence
\* alone) and returns 0: the two samples have the same weights.
C12_AgreeingPinsDropped ==
    (/\ outcome.op = "joint_logpdf"
     /\ outcome.Q # <<>>
     /\ Range(outcome.Q) \subseteq Range(outcome.Y)
     /\ outcome.err = "none") =>
        /\ ~outcome.inf
        /\ outcome.evidence = <<outcome.Y, outcome.Y>>
        /\ outcome.QY_weights = outcome.Y_weights

\* Column n of the model of the last query is dependent on its local column
\* l: it is l, or a local column crosscat answered 1 for, or a foreign column
\* with l, or a column dependent on l, among its parents.
RECURSIVE DependentOn(_, _)
DependentOn(n, l) ==
    \/ n = l
    \/ /\ n \in lcols(bdb, outcome.genid)
       /\ outcome.ccdep[<<BaseColumn(n), BaseColumn(l)>>] = 1
    \/ /\ n \in fcols(bdb, outcome.genid)
       /\ \/ l \in pcols(bdb, outcome.genid, n)
          \/ \E p \in pcols(bdb, outcome.genid, n) : DependentOn(p, l)

\* The last query asked for the dependence of the foreign column F and the
\* local column L, in either order.
AskedDependence(F, L) ==
    /\ outcome.op = "dependence"
    /\ {outcome.colno0, outcome.colno1} = {F, L}
    /\ F \in fcols(bdb, outcome.genid)
    /\ L \in lcols(bdb, outcome.genid)

\* C13: in one replicate the dependence of a local column L and a foreign
\* column F without a parent edge between them is true iff some parent of F
\* is dependent on L; the recursion ends on every created model, and on the
\* chain 1 -> 2 -> 3 the answer for (1, 3) and for (3, 1) is true.
C13_DependenceThroughParents ==
    \A F, L \in Columns :
        (AskedDependence(F, L) /\ L \notin pcols(bdb, outcome.genid, F)) =>
            /\ outcome.err = "none"
            /\ outcome.val = PyBool(\E p \in pcols(bdb, outcome.genid, F) : DependentOn(p, L))
            /\ (pcols(bdb, outcome.genid, 3) = {2} /\ pcols(bdb, outcome.genid, 2) = {1}
                /\ F = 3 /\ L = 1) => Truthy(outcome.val)

\* The chain was asked from its foreign end to its local end and the answer
\* was true.
C13_Witness ==
    /\ AskedDependence(3, 1)
    /\ outcome.colno0 = 3
    /\ pcols(bdb, outcome.genid, 3) = {2}
    /\ pcols(bdb, outcome.genid, 2) = {1}
    /\ outcome.val = PyBool(TRUE)

\* The number of places of the list l that hold c.
Count(l, c) == Cardinality({i \in 1..Len(l) : l[i] = c})

\* A column occurs twice in X, W, Z and the columns of Y of the last query:
\* twice in one of them, or in two of them.
ColumnsOverlap ==
    \E c \in Columns :
        Count(outcome.X, c) + Count(outcome.W, c) + Count(outcome.Z, c)
            + Cardinality({j \in 1..Len(outcome.Y) : outcome.Y[j][1] = c}) >= 2

\* C14: conditional_mutual_information whose X, W, Z and evidence columns
\* overlap raises the overlap error before it draws, estimates a density,
\* looks a predictor up or calls the base model; without an overlap it does
\* not raise that error.
C14_OverlapError ==
    outcome.op = "cmi" =>
        /\ ColumnsOverlap =>
            /\ outcome.err = DuplicateColnos
            /\ outcome.draws = <<>>
            /\ outcome.queries = <<>>
            /\ outcome.calls = <<>>
            /\ outcome.lookups = 0
        /\ ~ColumnsOverlap => outcome.err # DuplicateColnos

\* A foreign column twice within X alone raised the overlap error.
C14_Witness ==
    /\ outcome.op = "cmi"
    /\ Len(outcome.X) = 2
    /\ outcome.X[1] = outcome.X[2]
    /\ outcome.X[1] \in fcols(bdb, outcome.genid)
    /\ outcome.W = <<>> /\ outcome.Z = <<>> /\ outcome.Y = <<>>
    /\ outcome.err = DuplicateColnos

\* The pins of the columns cols with the values drawn for them, the values
\* of cols being those of s from place first on.
PinsOf(cols, s, first) == {<<cols[i], s[first + i - 1]>> : i \in 1..Len(cols)}

\* The queries the integrand of the draw s needs, in the order the densities
\* are computed: Z (when Z is not empty), X W Z, X Z and W Z, each column
\* pinned to the value drawn for it.
IntegrandQueries(X, W, Z, s) ==
    LET x == PinsOf(X, s, 1)
        w == PinsOf(W, s, Len(X) + 1)
        z == PinsOf(Z, s, Len(X) + Len(W) + 1)
    IN  (IF Z # <<>> THEN <<z>> ELSE <<>>) \o <<x \cup w \cup z, x \cup z, w \cup z>>

\* C15: for every draw (x, w, z) the densities computed are those of
\* Z = z (none when Z is empty), of X = x, W = w, Z = z, of X = x, Z = z and
\* of W = w, Z = z, every column pinned to the value drawn for that column.
C15_IntegrandPins ==
    (outcome.op = "cmi" /\ outcome.err = "none") =>
        LET per == IF outcome.Z # <<>> THEN 4 ELSE 3
        IN  /\ Len(outcome.queries) = per * Len(outcome.draws)
            /\ \A k \in 1..Len(outcome.draws) :
                LET want == IntegrandQueries(outcome.X, outcome.W, outcome.Z, outcome.draws[k])
                IN  \A i \in 1..per :
                        Range(outcome.queries[per * (k - 1) + i]) = want[i]

\* C16: row_similarity on a composite model, asked for columns of the model,
\* makes one call of the base model's row_similarity, with those of the
\* columns that are local, under the base model's numbers and in the order
\* given; a foreign column among them is left out and raises nothing.
C16_ForeignColumnsLeftOut ==
    (/\ outcome.op = "row_similarity"
     /\ CcRows(bdb, outcome.genid) # {}
     /\ \A i \in 1..Len(outcome.colnos) :
            outcome.colnos[i] \in lcols(bdb, outcome.genid) \cup fcols(bdb, outcome.genid)) =>
        /\ outcome.err = "none"
        /\ Len(outcome.calls) = 1
        /\ outcome.calls[1].colnos =
              LET local == SelectSeq(outcome.colnos, LAMBDA c : c \in lcols(bdb, outcome.genid))
              IN  [i \in 1..Len(local) |-> BaseColumn(local[i])]

\* C17: drop_models raises NotImplementedError for every generator and every
\* list of replicates, writes no table and evicts no cached predictor;
\* drop_generator never ends with that error.
C17_DropModelsUnsupported ==
    /\ outcome.op = "drop_models" =>
          /\ outcome.result = "NotImplementedError"
          /\ outcome.written = {}
          /\ outcome.evicted = {}
    /\ outcome.op = "drop" => outcome.result \in {"ok", "IndexError"}

\* drop_models was called on a composite model that has stored predictors,
\* one of them cached.
C17_Witness ==
    /\ outcome.op = "drop_models"
    /\ outcome.result = "NotImplementedError"
    /\ CcRows(bdb, outcome.genid) # {}
    /\ \E r \in bdb.column_foreign_predictor : r[1] = outcome.genid
    /\ \E k \in DOMAIN predictor_cache : k[1] = outcome.genid

\* C18: no call that runs _weighted_sample (simulate on its general path,
\* _joint_logpdf, conditional_mutual_information) ends with the
\* AssertionError of `assert pcols.issubset(set(samples[k]))`: when a
\* foreign column is reached in the persisted order, each of its parents has
\* a value in the sample.
C18_ParentsKnown ==
    outcome.op \in {"simulate", "joint_logpdf", "cmi"} => outcome.err # "AssertionError"

\* The general path of simulate ran to the end on a model where a foreign
\* column has a foreign parent that the evidence does not pin, so that the
\* parent's value came from the earlier step of the loop; a predictor was
\* looked up for every foreign column.
C18_Witness ==
    /\ outcome.op = "simulate"
    /\ ~QueryIsLocal
    /\ outcome.err = "none"
    /\ outcome.rows # <<>>
    /\ \E f \in fcols(bdb, outcome.genid) :
        \E p \in pcols(bdb, outcome.genid, f) \cap fcols(bdb, outcome.genid) :
            /\ \A j \in 1..Len(outcome.constraints) : outcome.constraints[j][1] # p
            /\ outcome.lookups >= Len(topo(bdb, outcome.genid))
            /\ Len(topo(bdb, outcome.genid)) >= 2

\* The rows of bayesdb_composer_column_toposort of a generator.
ToposortRows(g) == {r \in bdb.column_toposort : r[1] = g}

\* C19: for every composite model in the database, the persisted order ranks
\* every foreign column once and no local column, its ranks are 0..k-1 for k
\* foreign columns, and a foreign column is ranked after each of its foreign
\* parents; initialize_models, analyze_models, drop_models and the predictor
\* lookup of a query write nothing to the order.
C19_PersistedOrder ==
    /\ \A g \in Ids : CcRows(bdb, g) # {} =>
        /\ {r[2] : r \in ToposortRows(g)} = fcols(bdb, g)
        /\ Cardinality(ToposortRows(g)) = Cardinality(fcols(bdb, g))
        /\ {r[3] : r \in ToposortRows(g)} = 0..(Cardinality(fcols(bdb, g)) - 1)
        /\ \A r, q \in ToposortRows(g) :
              q[2] \in pcols(bdb, g, r[2]) => q[3] < r[3]
    /\ \A g \in Ids : CcRows(bdb, g) = {} => ToposortRows(g) = {}
    /\ outcome.op \in {"initialize", "analyze", "drop_models"} =>
          "column_toposort" \notin outcome.written

\* A model whose foreign column has a foreign parent was created and
\* initialized, and an analyze_models on it counted iterations.
C19_Witness ==
    /\ outcome.op = "analyze"
    /\ outcome.result = "ok"
    /\ "generator_model" \in outcome.written
    /\ \E r, q \in ToposortRows(outcome.genid) : q[2] \in pcols(bdb, outcome.genid, r[2])
    /\ \E r \in bdb.column_foreign_predictor : r[1] = outcome.genid /\ r[4] # NULL

\* The hypotheses built over the weighted samples of one simulate.
RECURSIVE Hypotheses(_)
Hypotheses(pools) ==
    IF pools = <<>> THEN 0 ELSE Len(pools[1].samples) + Hypotheses(Tail(pools))

\* C20: a simulate on the general path that returned n rows built n
\* hypotheses and n weights in all, and every row is the targets of a
\* hypothesis drawn from them.
C20_HypothesesAsRequested ==
    (/\ outcome.op = "simulate"
     /\ ~QueryIsLocal
     /\ outcome.err = "none") =>
        /\ Hypotheses(outcome.pools) = outcome.numpredictions
        /\ \A i \in 1..Len(outcome.pools) :
              Len(outcome.pools[i].weights) = Len(outcome.pools[i].samples)
        /\ \A i \in 1..Len(outcome.rows) :
              \E k \in 1..Len(outcome.pools) : \E h \in 1..Len(outcome.pools[k].samples) :
                  outcome.rows[i] =
                      [j \in 1..Len(outcome.colnos) |->
                          IF outcome.colnos[j] \in DOMAIN outcome.pools[k].samples[h]
                          THEN outcome.pools[k].samples[h][outcome.colnos[j]] ELSE None]

(***************************************************************************)
(* Properties of the aggregators and of the models of a generator.         *)
(***************************************************************************)
\* The models recorded for a generator.
Replicates(g) == {r[2] : r \in {q \in bdb.generator_model : q[1] = g}}

\* C21: an aggregator called without a model on a composite model evaluated
\* the models the generator has, each once and no other, until one raised;
\* and it divided the sum by their number.
C21_ExistingReplicatesOnce ==
    (/\ outcome.op \in {"column_dependence_probability", "column_mutual_information",
                        "column_value_probability"}
     /\ outcome.modelno = None
     /\ CcRows(bdb, outcome.genid) # {}) =>
        /\ Range(outcome.evaluated) \subseteq Replicates(outcome.genid)
        /\ \A i, j \in 1..Len(outcome.evaluated) :
              outcome.evaluated[i] = outcome.evaluated[j] => i = j
        /\ outcome.err = "none" =>
              /\ Range(outcome.evaluated) = Replicates(outcome.genid)
              /\ outcome.op # "column_value_probability" =>
                    outcome.divisor = Cardinality(Replicates(outcome.genid))

\* C22: an initialize_models that returned, for one model or for two, called
\* builder.create once for every foreign column of the generator and for
\* nothing else, each time with the column as target and the parents
\* recorded for it as conditions, and stored one predictor for each.
C22_OnePredictorPerForeignColumn ==
    (outcome.op = "initialize" /\ outcome.result = "ok") =>
        LET foreign == {r[2] : r \in {o \in bdb.column_owner :
                                         o[1] = outcome.genid /\ o[3] = 0}}
        IN  /\ Len(outcome.creates) = Cardinality(foreign)
            /\ {outcome.creates[i].targets[1] : i \in 1..Len(outcome.creates)} = foreign
            /\ \A i \in 1..Len(outcome.creates) :
                  outcome.creates[i].conditions =
                      {p[3] : p \in {q \in bdb.column_parents :
                                        /\ q[1] = outcome.genid
                                        /\ q[2] = outcome.creates[i].targets[1]}}
            /\ \A r \in bdb.column_foreign_predictor :
                  r[1] = outcome.genid => r[4] = NULL + 1

\* Two models were initialized for a generator with two foreign columns, one
\* the parent of the other.
C22_Witness ==
    /\ outcome.op = "initialize"
    /\ outcome.result = "ok"
    /\ outcome.modelnos = <<0, 1>>
    /\ Len(outcome.creates) = 2
    /\ \E i, j \in 1..2 : outcome.creates[i].targets[1] \in outcome.creates[j].conditions

SecondBatchFails ==
    (outcome.op = "initialize" /\ outcome.modelnos = <<1>>) => outcome.result # "ok"

C24_WitnessAll ==
    /\ outcome.op = "analyze"
    /\ outcome.result = "ok"
    /\ outcome.modelnos = Unspecified
    /\ <<outcome.genid, 0, outcome.iterations>> \in bdb.generator_model
    /\ <<outcome.genid, 1, outcome.iterations>> \in bdb.generator_model

(***************************************************************************)
(* Properties of predict_confidence.                                       *)
(***************************************************************************)
\* Two fractions are the same number; the first is at most the second.
SameNumber(a, b) == a[1] * b[2] = b[1] * a[2]

AtMost(a, b) == a[1] * b[2] <= b[1] * a[2]

\* C25: a predict_confidence for a foreign column that returned imputed the
\* parents that hold None in the row, each once and no other column, each by
\* predict_confidence for that parent; the confidence it returned is the
\* target's own confidence times the least of the confidences of those
\* parents, or times 1 when none was imputed.
C25_LeastParentConfidence ==
    (/\ outcome.op = "predict_confidence"
     /\ outcome.err = "none"
     /\ outcome.colno \in fcols(bdb, outcome.genid)) =>
        LET missing == pcols(bdb, outcome.genid, outcome.colno) \ DOMAIN outcome.row
            n == Len(outcome.imputed)
        IN  /\ {outcome.imputed[i].colno : i \in 1..n} = missing
            /\ n = Cardinality(missing)
            /\ \A i \in 1..n :
                  \E r \in PredictConfidence(bdb, predictor_builder,
                               NoMem(predictor_cache, deserialize_log), outcome.genid,
                               outcome.modelno, outcome.imputed[i].colno, outcome.row,
                               outcome.stattypes, n_samples) :
                      r.err = "none" /\ SameNumber(r.conf, outcome.imputed[i].conf)
            /\ IF n = 0 THEN SameNumber(outcome.conf, outcome.own)
               ELSE \E i \in 1..n :
                       /\ \A j \in 1..n : AtMost(outcome.imputed[i].conf, outcome.imputed[j].conf)
                       /\ SameNumber(outcome.conf, Times(outcome.own, outcome.imputed[i].conf))

\* Two parents of a foreign column were imputed, with different confidences.
C25_Witness ==
    /\ outcome.op = "predict_confidence"
    /\ outcome.err = "none"
    /\ outcome.colno \in fcols(bdb, outcome.genid)
    /\ Len(outcome.imputed) = 2
    /\ ~SameNumber(outcome.imputed[1].conf, outcome.imputed[2].conf)

\* A parent that is itself foreign was imputed, with a parent of its own
\* imputed for it.
C25_WitnessNested ==
    /\ outcome.op = "predict_confidence"
    /\ outcome.err = "none"
    /\ \E i \in 1..Len(outcome.imputed) :
          /\ outcome.imputed[i].colno \in fcols(bdb, outcome.genid)
          /\ pcols(bdb, outcome.genid, outcome.imputed[i].colno) \cap DOMAIN outcome.row = {}

\* C26: a predict_confidence for a local categorical column that was
\* answered from samples of simulate returned a most frequent sample, and as
\* confidence the number of samples equal to it over the number of samples.
C26_EmpiricalFrequency ==
    (/\ outcome.op = "predict_confidence"
     /\ outcome.err = "none"
     /\ outcome.path = "simulate"
     /\ outcome.stattypes[outcome.colno] = "categorical") =>
        LET count(v) == Cardinality({k \in 1..Len(outcome.samples) : outcome.samples[k] = v})
        IN  /\ \A k \in 1..Len(outcome.samples) :
                  count(outcome.samples[k]) <= count(outcome.val)
            /\ SameNumber(outcome.conf, <<count(outcome.val), Len(outcome.samples)>>)

(***************************************************************************)
(* Properties of the predictor cache after initialization.                 *)
(***************************************************************************)
\* C27: an instance the cache holds for a generator and a column is the
\* deserialization of the bytes now stored for them.
C27_CacheIsOfStoredBytes ==
    \A k \in DOMAIN predictor_cache :
        \E r \in bdb.column_foreign_predictor :
            /\ r[1] = k[1]
            /\ r[2] = k[2]
            /\ predictor_cache[k].binary = r[4]

\* C28: parse leaves its argument as it was, and a second parse of the same
\* schema object ends as the first did.
C28_ParseLeavesSchema ==
    /\ p_calls >= 1 => schema = RenderSchema(p_abs)
    /\ p_calls = 2 => p_result = Parse(RenderSchema(p_abs), DOMAIN predictor_builder).result


(***************************************************************************)
(* Properties of the dependence of one replicate in the two orders         *)
(***************************************************************************)
\* crosscat's answers of the last query do not depend on the order of the pair.
SymmetricBase ==
    \A p \in DOMAIN outcome.ccdep : outcome.ccdep[p] = outcome.ccdep[<<p[2], p[1]>>]

\* The last dependence query asked the other way around.
ReverseDependence ==
    ColumnDependence(bdb, outcome.ccdep, outcome.genid, outcome.modelno,
                     outcome.colno1, outcome.colno0)

\* C29: with a symmetric crosscat, the dependence of one replicate for (A, B)
\* is the dependence for (B, A): the same error, or the same value.
C29_DependenceSymmetric ==
    (outcome.op = "dependence" /\ SymmetricBase) =>
        /\ ReverseDependence.err = outcome.err
        /\ ReverseDependence.val = outcome.val


\* A local column first and a foreign column second, no edge between them,
\* found dependent through a parent of the foreign column.
C29_Witness ==
    /\ outcome.op = "dependence"
    /\ SymmetricBase
    /\ outcome.err = "none"
    /\ outcome.colno0 \in lcols(bdb, outcome.genid)
    /\ outcome.colno1 \in fcols(bdb, outcome.genid)
    /\ outcome.colno0 \notin pcols(bdb, outcome.genid, outcome.colno1)
    /\ outcome.val = PyBool(TRUE)

\* Two different foreign columns with no edge between them.
C29_WitnessForeign ==
    /\ outcome.op = "dependence"
    /\ SymmetricBase
    /\ outcome.err = "none"
    /\ outcome.colno0 # outcome.colno1
    /\ {outcome.colno0, outcome.colno1} \subseteq fcols(bdb, outcome.genid)
    /\ outcome.colno0 \notin pcols(bdb, outcome.genid, outcome.colno1)
    /\ outcome.colno1 \notin pcols(bdb, outcome.genid, outcome.colno0)


(***************************************************************************)
(* Properties of the demo command                                          *)
(***************************************************************************)
\* main() is over: it exited, returned, or became ipython.
DemoOver == demo.pc \in {"exited", "returned", "ipython"}

\* A call of download_demo returned.
Downloaded == \E i \in 1..Len(demo.downloads) : demo.downloads[i] = "returned"

\* C30: the fetch command calls download_demo at most three times and not
\* again after a call that returned; it exits with a failure status only
\* when every call raised; when a call returned, the first or a later one,
\* it goes on to the launch if the launch was requested.
C30_FetchRetries ==
    demo.pc # "none" =>
        /\ Len(demo.downloads) <= 3
        /\ \A i \in 1..(Len(demo.downloads) - 1) : demo.downloads[i] # "returned"
        /\ (demo.pc = "exited" /\ demo.at = "fetch" /\ demo.status = 1) => ~Downloaded
        /\ (DemoOver /\ Downloaded /\ demo.launch_p) => demo.at = "launch"

=============================================================================
